---- MODULE Spec2Model ----
(***************************************************************************)
(* Metamorphic-testing harness for abstract argumentation frameworks.      *)
(*                                                                         *)
(* Python values are modelled as follows.                                  *)
(*   str        a sequence of one-character strings: "A1" is <<"A","1">>   *)
(*   element    a record [type, val]: type "str" (val the characters),     *)
(*              "int" (val the decimal digits) or "list" (a nested list)    *)
(*   extension  a record [type, elems]: type "list" (a list of elements),   *)
(*              "str" (a bare string, iterated character by character) or  *)
(*              "int" (not iterable)                                        *)
(*   tag value  a record [type, items]: type "list" (a list of extensions), *)
(*              "int" (not iterable) or "none" (a key the dict lacks)       *)
(*   family     a dict in insertion order: a sequence of <<key, tag value>> *)
(*   report     a function from check identifiers to message sequences     *)
(***************************************************************************)
EXTENDS Integers, Sequences, FiniteSets, TLC

VARIABLES
    af,      \* the AF handed to the call; in a run, the base AF of the pair
    orig,    \* the original (base) extension family, or the only family
    trans,   \* the transformed extension family
    meta,    \* the transformation's metadata (renaming prefix, added name);
             \* in a run, the loop; in a query, the client and its attempts
    call,    \* which function has been called ("none" before); in a run,
             \* the state of the pair; in a query, the position in it
    out      \* what the call returned: [exc, report, expected]; in a run,
             \* self.results

vars == <<af, orig, trans, meta, call, out>>

-----------------------------------------------------------------------------
(* Bounds of the model *)

\* largest size n handed to a generator
MaxN == 3
\* largest number of extensions listed under one tag
MaxExts == 2
\* largest number of attacks of an AF constructed directly
MaxAttacks == 2
MaxSteps == 2
MaxFaults == 2
MaxRetries == 3

-----------------------------------------------------------------------------
(* Generic helpers *)

Range(s) == {s[i] : i \in DOMAIN s}

RECURSIVE SetToSeq(_)
\* some fixed listing of a finite set
SetToSeq(S) ==
    IF S = {} THEN <<>>
    ELSE LET x == CHOOSE y \in S : TRUE IN <<x>> \o SetToSeq(S \ {x})

RECURSIVE FlatMap(_, _)
\* concatenation of Op(s[1]), Op(s[2]), ...
FlatMap(Op(_), s) ==
    IF s = <<>> THEN <<>> ELSE Op(Head(s)) \o FlatMap(Op, Tail(s))

\* s without the later occurrences of each value (dict insertion order)
Dedup(s) ==
    LET keep == {i \in DOMAIN s : \A j \in 1..(i-1) : s[j] # s[i]}
        RECURSIVE Pick(_)
        Pick(i) == IF i > Len(s) THEN <<>>
                   ELSE (IF i \in keep THEN <<s[i]>> ELSE <<>>) \o Pick(i + 1)
    IN Pick(1)

DigitChar == <<"0", "1", "2", "3", "4", "5", "6", "7", "8", "9">>

RECURSIVE ToStr(_)
\* str(n) for a natural number n
ToStr(n) ==
    IF n < 10 THEN <<DigitChar[n + 1]>>
    ELSE ToStr(n \div 10) \o <<DigitChar[(n % 10) + 1]>>

-----------------------------------------------------------------------------
(* The AF model (py_arg AbstractArgumentationFramework)                    *)

\* AbstractArgumentationFramework(name, arguments, defeats): the arguments
\* are kept in a dict keyed by name, the defeats as the list given
MakeAF(arguments, defeats) ==
    [arguments |-> Dedup(arguments), defeats |-> defeats]

ArgNames(a) == Range(a.arguments)
Attacks(a) == Range(a.defeats)

\* af.is_in_arguments(name)
is_in_arguments(a, name) == name \in ArgNames(a)

\* the arguments attacking x
Attackers(a, x) == {d[1] : d \in {e \in Attacks(a) : e[2] = x}}

-----------------------------------------------------------------------------
(* AF generators *)

ArgA(i) == <<"A">> \o ToStr(i)
ArgB(i) == <<"B">> \o ToStr(i)
ArgD(i) == <<"D">> \o ToStr(i)
ArgT == <<"T">>
ArgAtt == <<"A", "t", "t">>

\* a generator returns [ok |-> TRUE, af |-> ...] or [ok |-> FALSE] (ValueError)
Rejected == [ok |-> FALSE, af |-> MakeAF(<<>>, <<>>)]
Generated(a) == [ok |-> TRUE, af |-> a]

\* the size check of generate_no_conflict off by one
generate_no_conflict_ZeroAccepted(n) ==
    IF n < 0 THEN Rejected
    ELSE Generated(MakeAF([i \in 1..n |-> ArgA(i)], <<>>))

generate_no_conflict(n) ==
    IF n <= 0 THEN Rejected
    ELSE Generated(MakeAF([i \in 1..n |-> ArgA(i)], <<>>))

generate_linear_attack_chain(n) ==
    IF n < 2 THEN Rejected
    ELSE Generated(MakeAF([i \in 1..n |-> ArgA(i)],
                          [i \in 1..(n-1) |-> <<ArgA(i), ArgA(i + 1)>>]))

\* the cycle without its closing attack
generate_cycle_Open(n) == generate_linear_attack_chain(n)

generate_cycle(n) ==
    IF n < 2 THEN Rejected
    ELSE Generated(MakeAF([i \in 1..n |-> ArgA(i)],
                          [i \in 1..n |-> <<ArgA(i), ArgA((i % n) + 1)>>]))

generate_single_target_multiple_attackers(n) ==
    IF n < 2 THEN Rejected
    ELSE Generated(MakeAF(<<ArgT>> \o [i \in 1..(n-1) |-> ArgA(i)],
                          [i \in 1..(n-1) |-> <<ArgA(i), ArgT>>]))

generate_single_attack_multiple_defenders(n) ==
    IF n < 3 THEN Rejected
    ELSE Generated(MakeAF(<<ArgT, ArgAtt>> \o [i \in 1..(n-2) |-> ArgD(i)],
                          <<<<ArgAtt, ArgT>>>> \o
                              [i \in 1..(n-2) |-> <<ArgD(i), ArgAtt>>]))

generate_disconnected_symmetric_pairs(n) ==
    IF n < 2 \/ n % 2 # 0 THEN Rejected
    ELSE LET num_pairs == n \div 2
             PairArgs(i) == <<ArgA(i), ArgB(i)>>
             PairDefs(i) == <<<<ArgA(i), ArgB(i)>>, <<ArgB(i), ArgA(i)>>>>
         IN Generated(MakeAF(FlatMap(PairArgs, [i \in 1..num_pairs |-> i]),
                             FlatMap(PairDefs, [i \in 1..num_pairs |-> i])))

GeneratorNames == {"NC", "LAC", "CYC", "STMA", "SAMD", "DSP"}

Generate(g, n) ==
    CASE g = "NC" -> generate_no_conflict(n)
      [] g = "LAC" -> generate_linear_attack_chain(n)
      [] g = "CYC" -> generate_cycle(n)
      [] g = "STMA" -> generate_single_target_multiple_attackers(n)
      [] g = "SAMD" -> generate_single_attack_multiple_defenders(n)
      [] g = "DSP" -> generate_disconnected_symmetric_pairs(n)

-----------------------------------------------------------------------------
(* Metamorphic transformations *)

\* the default renaming_map: lambda name: f"X_{name}"
DefaultPrefix == <<"X", "_">>
Rename(prefix, name) == prefix \o name

NameSA == <<"S", "A">>
NameU == <<"U">>

\* the renaming applied to the arguments only, the defeats left as they were
apply_isomorphism_by_ArgumentsOnly(a, r) ==
    [af |-> MakeAF([i \in DOMAIN a.arguments |-> r[a.arguments[i]]], a.defeats),
     meta |-> r]

\* apply_isomorphism with any renaming_map: r is the callable, as the function
\* from each name of the AF to the name it returns (new AF, renaming map)
apply_isomorphism_by(a, r) ==
    [af |-> MakeAF([i \in DOMAIN a.arguments |-> r[a.arguments[i]]],
                   [i \in DOMAIN a.defeats |->
                       <<r[a.defeats[i][1]], r[a.defeats[i][2]]>>]),
     meta |-> r]

\* apply_isomorphism: (new AF, renaming map); the map is kept as its prefix
apply_isomorphism(a, prefix) ==
    [af |-> MakeAF([i \in DOMAIN a.arguments |-> Rename(prefix, a.arguments[i])],
                   [i \in DOMAIN a.defeats |->
                       <<Rename(prefix, a.defeats[i][1]),
                         Rename(prefix, a.defeats[i][2])>>]),
     meta |-> prefix]

\* apply_fundamental_consistency: (new AF, sa_name)
apply_fundamental_consistency(a, sa_name) ==
    [af |-> MakeAF(a.arguments \o <<sa_name>>,
                   a.defeats \o <<<<sa_name, sa_name>>>>),
     meta |-> sa_name]

\* the added argument given an attack on itself
apply_modularity_SelfAttack(a, u_name) == apply_fundamental_consistency(a, u_name)

\* apply_modularity: (new AF, u_name)
apply_modularity(a, u_name) ==
    [af |-> MakeAF(a.arguments \o <<u_name>>, a.defeats),
     meta |-> u_name]

\* an Argument object: the name it carries, and what tells it from every
\* other object, of the same name or not: serial, the number of AFs
\* constructed before the call that created it, and key, the name it was
\* created for
Argument(name, serial, key) == [name |-> name, id |-> <<serial, key>>]

\* AbstractArgumentationFramework(name, arguments, defeats) over Argument
\* objects: the dict keeps under each name the last object given with it, in
\* the order in which the names first occur; the defeats hold the objects
\* they were made of
Objects(arguments, defeats) ==
    LET names == Dedup([i \in DOMAIN arguments |-> arguments[i].name])
        LastOf(n) == arguments[CHOOSE i \in DOMAIN arguments :
                        /\ arguments[i].name = n
                        /\ \A j \in (i+1)..Len(arguments) : arguments[j].name # n]
    IN [arguments |-> [i \in DOMAIN names |-> LastOf(names[i])], defeats |-> defeats]

\* the AF by the names of its objects
Named(o) ==
    [arguments |-> [i \in DOMAIN o.arguments |-> o.arguments[i].name],
     defeats |-> [i \in DOMAIN o.defeats |-> <<o.defeats[i][1].name, o.defeats[i][2].name>>]]

\* the objects of an AF made of one new Argument for each of its names, as
\* the generators make it
ObjectsOf(a) ==
    [arguments |-> [i \in DOMAIN a.arguments |-> Argument(a.arguments[i], 0, a.arguments[i])],
     defeats |-> [i \in DOMAIN a.defeats |->
                    <<Argument(a.defeats[i][1], 0, a.defeats[i][1]),
                      Argument(a.defeats[i][2], 0, a.defeats[i][2])>>]]

\* the objects of the AF apply_isomorphism constructs: one new Argument for
\* each name of af.arguments, none of them an object of af, and the defeats
\* between the new objects of their old endpoints' names
Renamed(o, r, serial) ==
    LET New(x) == Argument(r[x], serial, x)
    IN Objects([i \in DOMAIN o.arguments |-> New(o.arguments[i].name)],
               [i \in DOMAIN o.defeats |->
                   <<New(o.defeats[i][1].name), New(o.defeats[i][2].name)>>])

\* the objects of the AF constructed from af.arguments + [x] and
\* af.defeats + defeats
Extended(o, x, defeats) == Objects(o.arguments \o <<x>>, o.defeats \o defeats)

\* what the constructor of one AF appends to x's list of ingoing defeat
\* arguments: the attacker of every defeat on the object x, in the order of
\* the defeats
IngoingOf(o, x) ==
    LET One(d) == IF d[2] = x THEN <<d[1].name>> ELSE <<>>
    IN FlatMap(One, o.defeats)

\* an Argument object as a caller sees it: its name and its lists of ingoing
\* and outgoing defeat arguments (by their names), which every AF constructed
\* over the object (built, in the order of construction) has appended to
ArgumentObject(x, built) ==
    LET Ingoing(o) == IngoingOf(o, x)
        Outgoing(o) ==
            LET One(d) == IF d[1] = x THEN <<d[2].name>> ELSE <<>>
            IN FlatMap(One, o.defeats)
    IN [name |-> x.name, ingoing |-> FlatMap(Ingoing, built),
        outgoing |-> FlatMap(Outgoing, built)]

\* no Argument object
NoArgument == ArgumentObject(Argument(<<>>, 0, <<>>), <<>>)

NameDefender == <<"M", "_", "D", "e", "f", "e", "n", "d", "e", "r">>

\* the defender's name always given the suffix of the first retry
DefenderName_Suffixed(a, attacker, target, counter) == NameDefender \o <<"_">> \o ToStr(1)

\* the naming loop as a single test: "M_Defender_1" whenever "M_Defender" is
\* taken, whether or not that name is taken too
DefenderName_Once(a, attacker, target, counter) ==
    IF is_in_arguments(a, NameDefender) \/ NameDefender \in {attacker, target}
    THEN NameDefender \o <<"_">> \o ToStr(1)
    ELSE NameDefender

\* the defender's name without the naming loop
DefenderName_NoLoop(a, attacker, target, counter) == NameDefender

RECURSIVE DefenderName(_, _, _, _)
\* the naming loop: "M_Defender", then "M_Defender_<counter>" while taken
DefenderName(a, attacker, target, counter) ==
    LET defender_name == IF counter = 0 THEN NameDefender
                         ELSE NameDefender \o <<"_">> \o ToStr(counter)
    IN IF is_in_arguments(a, defender_name) \/ defender_name \in {attacker, target}
       THEN DefenderName(a, attacker, target, counter + 1)
       ELSE defender_name

\* the result of a call that raised ValueError
DDRejected ==
    [ok |-> FALSE, af |-> MakeAF(<<>>, <<>>), objects |-> Objects(<<>>, <<>>),
     defender |-> NoArgument, attacker |-> NoArgument, target |-> NoArgument]

\* apply_defense_dynamics: (new AF, defender, attacker, target), or
\* ValueError for an AF without defeats. a holds the objects of the AF,
\* choice is the index random.choice picks in af.defeats, and built lists the
\* AFs constructed so far over the Argument objects of a, a itself included.
\* The attacker and the target are the objects of the defeat picked, which
\* need not be the objects af.arguments holds under their names.
apply_defense_dynamics(a, built, choice) ==
    IF a.defeats = <<>> THEN DDRejected
    ELSE LET random_defeat == a.defeats[choice]
             attacker == random_defeat[1]
             target == random_defeat[2]
             defender_name == DefenderName(Named(a), attacker.name, target.name, 0)
             defender == Argument(defender_name, Len(built), defender_name)
             new_af == Extended(a, defender, <<<<defender, attacker>>>>)
             objects == built \o <<new_af>>
         IN [ok |-> TRUE, af |-> Named(new_af), objects |-> new_af,
             defender |-> ArgumentObject(defender, <<new_af>>),
             attacker |-> ArgumentObject(attacker, objects),
             target |-> ArgumentObject(target, objects)]

-----------------------------------------------------------------------------
(* Ground-truth extension calculator (py_arg semantics)                    *)

\* is_conflict_free(arguments, af): no defeat between two listed arguments
is_conflict_free(S, a) ==
    \A d \in Attacks(a) : ~(d[1] \in S /\ d[2] \in S)

\* x is defended by S: every attacker of x is attacked by a member of S
Defended(S, a, x) ==
    \A y \in Attackers(a, x) : \E z \in S : <<z, y>> \in Attacks(a)

get_complete_extensions(a) ==
    {S \in SUBSET ArgNames(a) :
        /\ is_conflict_free(S, a)
        /\ S = {x \in ArgNames(a) : Defended(S, a, x)}}

get_grounded_extension(a) ==
    LET complete == get_complete_extensions(a)
    IN CHOOSE S \in complete : \A R \in complete : S \subseteq R

get_preferred_extensions(a) ==
    LET complete == get_complete_extensions(a)
    IN {S \in complete : \A R \in complete : ~(S \subseteq R /\ S # R)}

get_stable_extensions(a) ==
    {S \in SUBSET ArgNames(a) :
        /\ is_conflict_free(S, a)
        /\ \A x \in ArgNames(a) \ S : \E z \in S : <<z, x>> \in Attacks(a)}

ExtTypes == <<"GE", "CE", "PE", "SE">>

\* every AF a generator returns for a size up to MaxN
GeneratedAFs ==
    {Generate(p[1], p[2]).af : p \in {q \in GeneratorNames \X (1..MaxN) : Generate(q[1], q[2]).ok}}

\* AFs constructed directly from arguments and defeats: three arguments and
\* any set of at most MaxAttacks attacks among them, self-attacks included
DirectNames == <<ArgA(1), ArgA(2), ArgT>>
DirectAFs ==
    {MakeAF(DirectNames, SetToSeq(R)) :
        R \in {Q \in SUBSET (Range(DirectNames) \X Range(DirectNames)) :
                  Cardinality(Q) <= MaxAttacks}}

\* AFs constructed directly whose arguments already carry the names the
\* naming loop of apply_defense_dynamics tries: M_Defender and M_Defender_1
\* taken; M_Defender and M_Defender_2 taken, M_Defender_1 free; M_Defender_1
\* taken, M_Defender free
DefenderNamedAFs ==
    LET Numbered(k) == NameDefender \o <<"_">> \o ToStr(k)
    IN {MakeAF(<<ArgA(1), NameDefender, Numbered(1)>>, <<<<ArgA(1), NameDefender>>>>),
        MakeAF(<<ArgA(1), NameDefender, Numbered(2)>>, <<<<Numbered(2), ArgA(1)>>>>),
        MakeAF(<<Numbered(1), ArgA(1)>>, <<<<Numbered(1), ArgA(1)>>>>)}

\* the images of the AFs of a set under apply_defense_dynamics, for every
\* defeat random.choice may pick
DefendedAFs(afs) ==
    UNION {{apply_defense_dynamics(ObjectsOf(a), <<ObjectsOf(a)>>, k).af : k \in DOMAIN a.defeats} : a \in afs}

\* the AFs the ground truth is asked about: the generated and the directly
\* constructed ones, and their images under the transformations
QueriedAFs ==
    GeneratedAFs
    \cup {apply_isomorphism(a, DefaultPrefix).af : a \in GeneratedAFs}
    \cup {apply_fundamental_consistency(a, NameSA).af : a \in GeneratedAFs}
    \cup {apply_modularity(a, NameU).af : a \in GeneratedAFs}
    \cup DefendedAFs(GeneratedAFs)
    \cup DirectAFs \cup DefendedAFs(DirectAFs)

\* the calculators' results, computed once per AF
ExtensionTable ==
    [a \in QueriedAFs |->
        [GE |-> {get_grounded_extension(a)},
         CE |-> get_complete_extensions(a),
         PE |-> get_preferred_extensions(a),
         SE |-> get_stable_extensions(a)]]

\* extension_calculator[ext_type](af), the grounded extension wrapped
ExpectedSets(a, ext_type) == ExtensionTable[a][ext_type]

-----------------------------------------------------------------------------
(* Python values exchanged with the oracle *)

StrElem(name) == [type |-> "str", val |-> name]
IntElem(n) == [type |-> "int", val |-> ToStr(n)]
ListElem == [type |-> "list", val |-> <<>>]

ListItem(elems) == [type |-> "list", elems |-> elems]
\* a bare string where an extension is expected: iterating it gives its
\* characters, each a one-character string
StrItem(name) == [type |-> "str", elems |-> [i \in DOMAIN name |-> StrElem(<<name[i]>>)]]
IntItem == [type |-> "int", elems |-> <<>>]

ListTag(items) == [type |-> "list", items |-> items]
IntTag == [type |-> "int", items |-> <<>>]
NoneVal == [type |-> "none", items |-> <<>>]

\* an extension given as a list of names
Ext(names) == ListItem([i \in DOMAIN names |-> StrElem(names[i])])

\* a family is a dict in insertion order: a sequence of <<key, value>>
Keys(fam) == {fam[i][1] : i \in DOMAIN fam}
\* dict.get(key, default)
GetOr(fam, key, default) ==
    IF key \in Keys(fam)
    THEN LET i == CHOOSE j \in DOMAIN fam : fam[j][1] = key IN fam[i][2]
    ELSE default
\* dict.get(key)
Get(fam, key) == GetOr(fam, key, NoneVal)

\* frozenset(s) for an extension s whose elements are strings
NameSet(item) == {item.elems[i].val : i \in DOMAIN item.elems}
\* {frozenset(s) for s in ext_sets}
SetsOf(v) == {NameSet(v.items[i]) : i \in DOMAIN v.items}

-----------------------------------------------------------------------------
(* Violation reports: dict from check identifier to list of messages       *)

EmptyReport == [k \in {} |-> <<>>]

\* violations.setdefault(key, []).append(msg)
AddMsg(report, key, msg) ==
    IF key \in DOMAIN report
    THEN [report EXCEPT ![key] = Append(@, msg)]
    ELSE report @@ (key :> <<msg>>)

RECURSIVE AddMsgs(_, _, _)
AddMsgs(report, key, msgs) ==
    IF msgs = <<>> THEN report
    ELSE AddMsgs(AddMsg(report, key, Head(msgs)), key, Tail(msgs))

\* {**a, **b}: the keys of a, then those of b, b winning on a shared key
Merge(a, b) == b @@ a

\* what a call gives back: an exception, or a report (and, for validity,
\* the ground-truth family)
Returned(report) == [exc |-> "none", report |-> report, expected |-> <<>>]
ReturnedWith(report, expected) == [exc |-> "none", report |-> report, expected |-> expected]
Raised(exc) == [exc |-> exc, report |-> EmptyReport, expected |-> <<>>]

-----------------------------------------------------------------------------
(* Schema validation *)

\* " " in a, for a string a
HasSpace(chars) == \E i \in DOMAIN chars : chars[i] = " "

\* what evaluating  " " in a  does for one element
SpaceEvent(e) ==
    CASE e.type = "str" -> IF HasSpace(e.val) THEN "hit" ELSE "no"
      [] e.type = "int" -> "raise"
      [] e.type = "list" -> "no"

ItemEvents(item) ==
    IF item.type = "int" THEN <<"raise">>
    ELSE [i \in DOMAIN item.elems |-> SpaceEvent(item.elems[i])]

\* the events of  (" " in a for s in ext_sets for a in s), in order
Events(v) ==
    IF v.type # "list" THEN <<"raise">> ELSE FlatMap(ItemEvents, v.items)

\* any(...) over the events: "hit", "raise" or "no"
AnyEvent(ev) ==
    IF \A i \in DOMAIN ev : ev[i] = "no" THEN "no"
    ELSE ev[CHOOSE i \in DOMAIN ev :
                ev[i] # "no" /\ \A j \in 1..(i-1) : ev[j] = "no"]

\* any(not isinstance(a, str) for s in ext_sets for a in s)
HasNonStr(v) ==
    \E i \in DOMAIN v.items :
        \E j \in DOMAIN v.items[i].elems : v.items[i].elems[j].type # "str"

\* one pass of the loop body of verify_output_schema
SchemaOfTag(v) ==
    CASE AnyEvent(Events(v)) = "hit" -> AddMsg(EmptyReport, "SCHEMA-ERROR", <<"whitespace">>)
      [] AnyEvent(Events(v)) = "raise" -> AddMsg(EmptyReport, "SCHEMA-VERIFICATION-FAILED", <<"cannot verify">>)
      [] OTHER -> IF HasNonStr(v)
                  THEN AddMsg(EmptyReport, "SCHEMA-ERROR", <<"not a string">>)
                  ELSE EmptyReport

RECURSIVE SchemaLoop(_, _)
SchemaLoop(fam, types) ==
    IF types = <<>> THEN EmptyReport
    ELSE LET r == SchemaOfTag(Get(fam, Head(types)))
         IN IF DOMAIN r # {} THEN r ELSE SchemaLoop(fam, Tail(types))

\* verify_output_schema: the empty report stands for the None it returns
verify_output_schema(fam) == SchemaLoop(fam, ExtTypes)

\* one pass of the loop body of verify_output_schema_metamorphic
SchemaOfTagPair(v, w) ==
    LET ev == AnyEvent(Events(v) \o Events(w))
    IN CASE ev = "hit" -> AddMsg(EmptyReport, "SCHEMA-ERROR", <<"whitespace">>)
         [] ev = "raise" -> AddMsg(EmptyReport, "SCHEMA-VERIFICATION-FAILED", <<"cannot verify">>)
         [] OTHER ->
              LET r1 == IF HasNonStr(v)
                        THEN AddMsg(EmptyReport, "SCHEMA-ERROR", <<"not a string", "original">>)
                        ELSE EmptyReport
              IN IF HasNonStr(w)
                 THEN AddMsg(r1, "SCHEMA-ERROR", <<"not a string", "transformed">>)
                 ELSE r1

RECURSIVE SchemaPairLoop(_, _, _)
SchemaPairLoop(original_ext, transformed_ext, types) ==
    IF types = <<>> THEN EmptyReport
    ELSE LET r == SchemaOfTagPair(Get(original_ext, Head(types)),
                                  Get(transformed_ext, Head(types)))
         IN IF DOMAIN r # {} THEN r
            ELSE SchemaPairLoop(original_ext, transformed_ext, Tail(types))

verify_output_schema_metamorphic(original_ext, transformed_ext) ==
    SchemaPairLoop(original_ext, transformed_ext, ExtTypes)

-----------------------------------------------------------------------------
(* Fundamental properties *)

\* _str_to_args(arg_names, af): "ok", or the exception the first failing
\* af.get_argument(name) raises
StrToArgsOutcome(item, a) ==
    LET Bad(e) == ~(e.type = "str" /\ is_in_arguments(a, e.val))
        ExcOf(e) == IF e.type = "list" THEN "TypeError" ELSE "ValueError"
    IN IF item.type = "int" THEN "TypeError"
       ELSE IF \A i \in DOMAIN item.elems : ~Bad(item.elems[i]) THEN "ok"
       ELSE ExcOf(item.elems[CHOOSE i \in DOMAIN item.elems :
                      Bad(item.elems[i]) /\ \A j \in 1..(i-1) : ~Bad(item.elems[j])])

\* FP-6 with only the conflict test, without the except ValueError branch
FP6OfItem_NoUnknownCheck(ext_type, item, a) ==
    LET o == StrToArgsOutcome(item, a)
    IN CASE o = "TypeError" -> [kind |-> "raise", msg |-> <<>>]
         [] o = "ValueError" -> [kind |-> "ok", msg |-> <<>>]
         [] OTHER -> IF ~is_conflict_free(NameSet(item), a)
                     THEN [kind |-> "msg", msg |-> <<"FP-6 Violation", ext_type>>]
                     ELSE [kind |-> "ok", msg |-> <<>>]

\* the body of the FP-6 loop for one listed extension; the message of the
\* except ValueError branch holds sorted(arg_set_str), which raises TypeError
\* when the members are not all of one type
FP6OfItem(ext_type, item, a) ==
    LET o == StrToArgsOutcome(item, a)
        mixed == \E i \in DOMAIN item.elems, j \in DOMAIN item.elems :
                    item.elems[i].type # item.elems[j].type
    IN CASE o = "TypeError" -> [kind |-> "raise", msg |-> <<>>]
         [] o = "ValueError" -> IF mixed THEN [kind |-> "raise", msg |-> <<>>]
                                ELSE [kind |-> "msg", msg |-> <<"FP-6 setup error">>]
         [] OTHER -> IF ~is_conflict_free(NameSet(item), a)
                     THEN [kind |-> "msg", msg |-> <<"FP-6 Violation", ext_type>>]
                     ELSE [kind |-> "ok", msg |-> <<>>]

\* the FP-6 loop over llm_extensions.items(), in order
FP6Outcomes(a, fam) ==
    LET OfPair(pair) ==
            IF pair[2].type # "list" THEN <<[kind |-> "raise", msg |-> <<>>]>>
            ELSE [i \in DOMAIN pair[2].items |-> FP6OfItem(pair[1], pair[2].items[i], a)]
    IN FlatMap(OfPair, fam)

MsgsOf(outcomes) ==
    LET One(o) == IF o.kind = "msg" THEN <<o.msg>> ELSE <<>>
    IN FlatMap(One, outcomes)

\* FP-1..FP-5 as a chain of elif: only the first failing one is reported
FP1to5_ShortCircuit(ge_sets, ce_sets, pe_sets, se_sets) ==
    CASE ~(ge_sets \subseteq ce_sets) -> AddMsg(EmptyReport, "FP-1", <<"FP-1 Violation">>)
      [] ~(pe_sets \subseteq ce_sets) -> AddMsg(EmptyReport, "FP-2", <<"FP-2 Violation">>)
      [] ~(se_sets \subseteq pe_sets) -> AddMsg(EmptyReport, "FP-3", <<"FP-3 Violation">>)
      [] Cardinality(ge_sets) > 1 -> AddMsg(EmptyReport, "FP-4", <<"FP-4 Violation">>)
      [] Cardinality(pe_sets) = 0 -> AddMsg(EmptyReport, "FP-5", <<"FP-5 Violation">>)
      [] OTHER -> EmptyReport

\* FP-1..FP-5 on the four sets of frozensets
FP1to5(ge_sets, ce_sets, pe_sets, se_sets) ==
    LET r0 == EmptyReport
        r1 == IF ~(ge_sets \subseteq ce_sets)
              THEN AddMsg(r0, "FP-1", <<"FP-1 Violation">>) ELSE r0
        r2 == IF ~(pe_sets \subseteq ce_sets)
              THEN AddMsg(r1, "FP-2", <<"FP-2 Violation">>) ELSE r1
        r3 == IF ~(se_sets \subseteq pe_sets)
              THEN AddMsg(r2, "FP-3", <<"FP-3 Violation">>) ELSE r2
        r4 == IF Cardinality(ge_sets) > 1
              THEN AddMsg(r3, "FP-4", <<"FP-4 Violation">>) ELSE r3
    IN IF Cardinality(pe_sets) = 0
       THEN AddMsg(r4, "FP-5", <<"FP-5 Violation">>) ELSE r4

verify_fundamental_properties(a, llm_extensions) ==
    LET schema_violations == verify_output_schema(llm_extensions)
        EmptyTag == ListTag(<<>>)
        violations == FP1to5(SetsOf(GetOr(llm_extensions, "GE", EmptyTag)),
                             SetsOf(GetOr(llm_extensions, "CE", EmptyTag)),
                             SetsOf(GetOr(llm_extensions, "PE", EmptyTag)),
                             SetsOf(GetOr(llm_extensions, "SE", EmptyTag)))
        outcomes == FP6Outcomes(a, llm_extensions)
    IN IF DOMAIN schema_violations # {} THEN Returned(schema_violations)
       ELSE IF \E i \in DOMAIN outcomes : outcomes[i].kind = "raise"
            THEN Raised("TypeError")
            ELSE Returned(AddMsgs(violations, "FP-6", MsgsOf(outcomes)))

-----------------------------------------------------------------------------
(* Validity against the ground truth *)

\* the ground-truth family: tag -> set of argument-name sets
ExpectedFamily(a) == [t \in Range(ExtTypes) |-> ExpectedSets(a, t)]

\* the comparison of one tag, with the claimed extensions taken as lists
\* (order and repetition kept) instead of frozensets
ValidityMismatch_AsLists(a, ext_type, v) ==
    Len(v.items) # Cardinality(ExpectedSets(a, ext_type))
    \/ SetsOf(v) # ExpectedSets(a, ext_type)

\* ext_sets != expected_ext_sets for one tag
ValidityMismatch(a, ext_type, v) == SetsOf(v) # ExpectedSets(a, ext_type)

verify_validity(a, llm_extensions) ==
    LET schema_violations == verify_output_schema(llm_extensions)
        Val(t) == GetOr(llm_extensions, t, ListTag(<<>>))
        \* [self._str_to_args(s, af) for s in ext_sets], tag after tag
        OutcomesOf(t) == [i \in DOMAIN Val(t).items |-> StrToArgsOutcome(Val(t).items[i], a)]
        outcomes == FlatMap(OutcomesOf, ExtTypes)
        RECURSIVE Loop(_, _)
        Loop(types, violations) ==
            IF types = <<>> THEN violations
            ELSE Loop(Tail(types),
                      IF ValidityMismatch(a, Head(types), Val(Head(types)))
                      THEN AddMsg(violations, "Invalid " \o Head(types), <<"Expected .. but got ..">>)
                      ELSE violations)
    IN IF DOMAIN schema_violations # {} THEN Returned(schema_violations)
       ELSE IF \E i \in DOMAIN outcomes : outcomes[i] # "ok"
            THEN Raised(outcomes[CHOOSE i \in DOMAIN outcomes :
                            outcomes[i] # "ok" /\ \A j \in 1..(i-1) : outcomes[j] = "ok"])
            ELSE ReturnedWith(Loop(ExtTypes, EmptyReport), ExpectedFamily(a))

-----------------------------------------------------------------------------
(* Metamorphic relations *)

\* {frozenset(renaming_map(arg) for arg in s) for s in original_sets}
RenamedSets(sets, prefix) == {{Rename(prefix, x) : x \in S} : S \in sets}

\* the comparison of one tag with the renaming left out
IsoMismatch_NoRename(v, w, prefix) == SetsOf(v) # SetsOf(w)

\* expected_transformed_sets != transformed_sets for one tag
IsoMismatch(v, w, prefix) == RenamedSets(SetsOf(v), prefix) # SetsOf(w)

verify_isomorphism(original_ext, transformed_ext, prefix) ==
    LET schema_violations == verify_output_schema_metamorphic(original_ext, transformed_ext)
        RECURSIVE Loop(_, _)
        Loop(types, violations) ==
            IF types = <<>> THEN violations
            ELSE Loop(Tail(types),
                      IF IsoMismatch(Get(original_ext, Head(types)),
                                     Get(transformed_ext, Head(types)), prefix)
                      THEN AddMsg(violations, "MR-ISO", <<"MR-ISO Violation", Head(types)>>)
                      ELSE violations)
    IN IF DOMAIN schema_violations # {} THEN Returned(schema_violations)
       ELSE Returned(Loop(ExtTypes, EmptyReport))

\* p in s, for strings p and s (substring test)
IsSubstr(p, s) ==
    \E i \in 0..(Len(s) - Len(p)) : SubSeq(s, i + 1, i + Len(p)) = p

\* sa_name in s, for one listed extension s: "yes", "no" or "raise"
NameInItem(name, item) ==
    CASE item.type = "int" -> "raise"
      [] item.type = "str" ->
            IF IsSubstr(name, [i \in DOMAIN item.elems |-> item.elems[i].val[1]])
            THEN "yes" ELSE "no"
      [] OTHER -> IF \E i \in DOMAIN item.elems : item.elems[i] = StrElem(name)
                  THEN "yes" ELSE "no"

\* MR-FC.1 looking at the grounded extensions only
FC1Outcomes_GEOnly(transformed_ext, sa_name) ==
    LET OfPair(pair) ==
            IF pair[1] # "GE" THEN <<>>
            ELSE IF pair[2].type # "list" THEN <<[kind |-> "raise", msg |-> <<>>]>>
            ELSE [i \in DOMAIN pair[2].items |->
                    LET s == pair[2].items[i]
                        o == NameInItem(sa_name, s)
                        mixed == \E j \in DOMAIN s.elems, k \in DOMAIN s.elems :
                                    s.elems[j].type # s.elems[k].type
                    IN CASE o = "raise" -> [kind |-> "raise", msg |-> <<>>]
                         [] o = "yes" -> IF mixed THEN [kind |-> "raise", msg |-> <<>>]
                                         ELSE [kind |-> "msg", msg |-> <<"MR-FC.1 Violation", pair[1]>>]
                         [] OTHER -> [kind |-> "ok", msg |-> <<>>]]
    IN FlatMap(OfPair, transformed_ext)

\* the MR-FC.1 loop over transformed_ext.items(), in order; the message
\* holds sorted(s), which raises TypeError when the members of s are not all
\* of one type
FC1Outcomes(transformed_ext, sa_name) ==
    LET OfPair(pair) ==
            IF pair[2].type # "list" THEN <<[kind |-> "raise", msg |-> <<>>]>>
            ELSE [i \in DOMAIN pair[2].items |->
                    LET s == pair[2].items[i]
                        o == NameInItem(sa_name, s)
                        mixed == \E j \in DOMAIN s.elems, k \in DOMAIN s.elems :
                                    s.elems[j].type # s.elems[k].type
                    IN CASE o = "raise" -> [kind |-> "raise", msg |-> <<>>]
                         [] o = "yes" -> IF mixed THEN [kind |-> "raise", msg |-> <<>>]
                                         ELSE [kind |-> "msg", msg |-> <<"MR-FC.1 Violation", pair[1]>>]
                         [] OTHER -> [kind |-> "ok", msg |-> <<>>]]
    IN FlatMap(OfPair, transformed_ext)

verify_fundamental_consistency(original_ext, transformed_ext, sa_name) ==
    LET schema_violations == verify_output_schema_metamorphic(original_ext, transformed_ext)
        outcomes == FC1Outcomes(transformed_ext, sa_name)
        r1 == AddMsgs(EmptyReport, "MR-FC", MsgsOf(outcomes))
        original_ge == SetsOf(Get(original_ext, "GE"))
        transformed_ge == SetsOf(Get(transformed_ext, "GE"))
    IN IF DOMAIN schema_violations # {} THEN Returned(schema_violations)
       ELSE IF \E i \in DOMAIN outcomes : outcomes[i].kind = "raise"
            THEN Raised("TypeError")
            ELSE Returned(IF original_ge # transformed_ge
                          THEN AddMsg(r1, "MR-FC", <<"MR-FC.2 Violation", "GE">>)
                          ELSE r1)

\* next(iter(ge_str), []): the first listed extension, or an empty list
FirstItem(v) == IF v.items = <<>> THEN ListItem(<<>>) ELSE v.items[1]

\* the expected image of a family with u_name left out of the extensions
ModExpectedSets_NoUnion(sets, u_name) == sets

\* {frozenset(list(s) + [u_name]) for s in original_sets}
ModExpectedSets(sets, u_name) == {S \cup {u_name} : S \in sets}

\* expected_transformed_sets != transformed_sets
ModMismatch(expected_sets, transformed_sets) == expected_sets # transformed_sets

verify_modularity(original_ext, transformed_ext, u_name) ==
    LET schema_violations == verify_output_schema_metamorphic(original_ext, transformed_ext)
        EmptyTag == ListTag(<<>>)
        original_ge_list == FirstItem(GetOr(original_ext, "GE", EmptyTag))
        transformed_ge_list == FirstItem(GetOr(transformed_ext, "GE", EmptyTag))
        expected_ge_set == NameSet(original_ge_list) \cup {u_name}
        r1 == IF NameSet(transformed_ge_list) # expected_ge_set
              THEN AddMsg(EmptyReport, "MR-MOD", <<"MR-MOD Violation", "GE">>)
              ELSE EmptyReport
        RECURSIVE Loop(_, _)
        Loop(types, violations) ==
            IF types = <<>> THEN violations
            ELSE Loop(Tail(types),
                      IF ModMismatch(ModExpectedSets(SetsOf(GetOr(original_ext, Head(types), EmptyTag)), u_name),
                                     SetsOf(GetOr(transformed_ext, Head(types), EmptyTag)))
                      THEN AddMsg(violations, "MR-MOD", <<"MR-MOD Violation", Head(types)>>)
                      ELSE violations)
    IN IF DOMAIN schema_violations # {} THEN Returned(schema_violations)
       \* original_ge_list + [u_name] with a bare string on the left
       ELSE IF original_ge_list.type = "str" THEN Raised("TypeError")
       ELSE Returned(Loop(<<"CE", "PE", "SE">>, r1))

\* frozenset(next(iter(ext.get('GE', [[]])), [])): the names of the first
\* listed grounded extension, none when no extension is listed
FirstGESet(ext) ==
    NameSet(FirstItem(GetOr(ext, "GE", ListTag(<<ListItem(<<>>)>>))))

\* MR-DD.2 looked at only when MR-DD.1 passed
DD1and2_ElseIf(transformed_ge_set, defender, attacker) ==
    IF defender.name \notin transformed_ge_set
    THEN AddMsg(EmptyReport, "MR-DD.1", <<"Defender not in new GE", defender.name>>)
    ELSE IF attacker.name \in transformed_ge_set
         THEN AddMsg(EmptyReport, "MR-DD.2", <<"Attacker still in new GE", attacker.name>>)
         ELSE EmptyReport

\* MR-DD.1 and MR-DD.2: two separate ifs
DD1and2(transformed_ge_set, defender, attacker) ==
    LET r1 == IF defender.name \notin transformed_ge_set
              THEN AddMsg(EmptyReport, "MR-DD.1", <<"Defender not in new GE", defender.name>>)
              ELSE EmptyReport
    IN IF attacker.name \in transformed_ge_set
       THEN AddMsg(r1, "MR-DD.2", <<"Attacker still in new GE", attacker.name>>)
       ELSE r1

\* the reinstatement law evaluated whatever the original grounded extension
DD3_NoPremise(violations, original_ge_set, transformed_ge_set, target) ==
    LET should_be_reinstated ==
            \A i \in DOMAIN target.ingoing : target.ingoing[i] \notin transformed_ge_set
        is_reinstated == target.name \in transformed_ge_set
    IN IF should_be_reinstated # is_reinstated
       THEN AddMsg(violations, "MR-DD.3", <<"Target", target.name>>)
       ELSE violations

\* MR-DD.3: the reinstatement law, under the premise that the target was
\* not in the original grounded extension
DD3(violations, original_ge_set, transformed_ge_set, target) ==
    LET premise_target_was_out == target.name \notin original_ge_set
        all_target_attackers == target.ingoing
        should_be_reinstated ==
            \A i \in DOMAIN all_target_attackers :
                all_target_attackers[i] \notin transformed_ge_set
        is_reinstated == target.name \in transformed_ge_set
        still_in_attackers ==
            SelectSeq(all_target_attackers, LAMBDA n : n \in transformed_ge_set)
        r1 == IF should_be_reinstated /\ ~is_reinstated
              THEN AddMsg(violations, "MR-DD.3",
                          <<"Target was not reinstated", target.name>>)
              ELSE violations
    IN IF ~premise_target_was_out THEN violations
       ELSE IF ~should_be_reinstated /\ is_reinstated
            THEN AddMsg(r1, "MR-DD.3",
                        <<"Target was reinstated but should not", target.name,
                          still_in_attackers>>)
            ELSE r1

verify_defense_dynamics(original_ext, transformed_ext, defender, attacker, target) ==
    LET schema_violations == verify_output_schema_metamorphic(original_ext, transformed_ext)
        original_ge_set == FirstGESet(original_ext)
        transformed_ge_set == FirstGESet(transformed_ext)
    IN IF DOMAIN schema_violations # {} THEN Returned(schema_violations)
       ELSE Returned(DD3(DD1and2(transformed_ge_set, defender, attacker),
                         original_ge_set, transformed_ge_set, target))

-----------------------------------------------------------------------------
(* The perfect oracle *)

\* a set of argument-name sets listed as a list of lists
ListedSets(sets) == ListTag(SetToSeq({Ext(SetToSeq(S)) : S \in sets}))

Family(ge, ce, pe, se) == <<<<"GE", ge>>, <<"CE", ce>>, <<"PE", pe>>, <<"SE", se>>>>

\* LogicTester._get_llm_response_for_af: the true extensions, by name
TrueFamily(a) ==
    Family(ListedSets(ExpectedSets(a, "GE")), ListedSets(ExpectedSets(a, "CE")),
           ListedSets(ExpectedSets(a, "PE")), ListedSets(ExpectedSets(a, "SE")))

-----------------------------------------------------------------------------
(* Inputs: the AFs and the oracle answers the calls are applied to         *)

\* names that belong to no generated or transformed AF
NameZ1 == <<"Z", "1">>
NameZ2 == <<"Z", "2">>

\* the two names the answers are built from: the AF's first two arguments,
\* and names unknown to the AF when it has fewer
ProbeNames(a) == SubSeq(a.arguments \o <<NameZ1, NameZ2>>, 1, 2)

\* the extensions an answer may list, over two names
ItemPool(names) ==
    <<Ext(<<>>), Ext(<<names[1]>>), Ext(<<names[2]>>), Ext(<<names[1], names[2]>>)>>

\* the well-formed values of one tag: up to MaxExts distinct extensions of
\* the pool in the pool's order, and each single extension listed twice
TagPool(pool) ==
    LET Idx(m) == {s \in [1..m -> DOMAIN pool] : \A i \in 1..(m-1) : s[i] < s[i+1]}
        Lists == UNION {{[i \in 1..k |-> pool[t[i]]] : t \in Idx(k)} : k \in 0..MaxExts}
        Twice == {<<pool[i], pool[i]>> : i \in DOMAIN pool}
    IN {ListTag(l) : l \in Lists \cup Twice}

\* values of one tag that break the output schema
MalformedTags(names) ==
    {ListTag(<<Ext(<<<<"A", " ", "1">>>>)>>),       \* [["A 1"]]
     ListTag(<<Ext(<<<<"A", "\t", "1">>>>)>>),      \* [["A\t1"]]
     ListTag(<<Ext(<<<<"A", "\n", "1">>>>)>>),      \* [["A\n1"]]
     ListTag(<<ListItem(<<IntElem(7)>>)>>),         \* [[7]]
     ListTag(<<ListItem(<<ListElem>>)>>),           \* [[[]]]
     ListTag(<<IntItem>>),                          \* [7]
     ListTag(<<StrItem(names[1])>>),                \* ["A1"]: a flat list
     IntTag}                                        \* 7

\* d[key] = value on a dict that has the key
SetKey(fam, key, value) ==
    [i \in DOMAIN fam |-> IF fam[i][1] = key THEN <<key, value>> ELSE fam[i]]

\* del d[key]
DelKey(fam, key) ==
    LET One(pair) == IF pair[1] = key THEN <<>> ELSE <<pair>>
    IN FlatMap(One, fam)

TagSet == Range(ExtTypes)

\* the answers that differ from ref in the values of at most one tag
OneOff(ref, values) ==
    {SetKey(ref, t, v) : <<t, v>> \in TagSet \X values}

\* the well-formed answers for AF a over the given names: the true family
\* with the values of at most two tags replaced
Answers2(a, names) ==
    UNION {OneOff(f, TagPool(ItemPool(names))) : f \in OneOff(TrueFamily(a), TagPool(ItemPool(names)))}

\* the same with the values of at most one tag replaced
Answers1(a, names) == OneOff(TrueFamily(a), TagPool(ItemPool(names)))

\* answers of every shape: the true family, with one tag malformed, with a
\* key missing, with an extra key (a list of names, a non-list, a list
\* mixing a name and an integer), and the empty dict of an unparseable reply
Shapes(a, names) ==
    {TrueFamily(a), <<>>}
    \cup OneOff(TrueFamily(a), MalformedTags(names))
    \cup {DelKey(TrueFamily(a), t) : t \in TagSet}
    \cup {TrueFamily(a) \o <<<<"XX", v>>>> :
            v \in {ListTag(<<Ext(<<names[1]>>)>>), IntTag,
                   ListTag(<<ListItem(<<StrElem(names[2]), IntElem(7)>>)>>)}}

NoCall == Returned(EmptyReport)

\* the transformation a pair of answers belongs to, with its metadata
Transformed(kind, a) ==
    CASE kind = "isomorphism" -> apply_isomorphism(a, DefaultPrefix)
      [] kind = "fundamental_consistency" -> apply_fundamental_consistency(a, NameSA)
      [] kind = "modularity" -> apply_modularity(a, NameU)

\* the names the transformed answers are built from: the image of the first
\* probe name, and the added argument (or the image of the second name)
TransformedProbes(kind, a) ==
    CASE kind = "isomorphism" ->
            <<Rename(DefaultPrefix, ProbeNames(a)[1]), Rename(DefaultPrefix, ProbeNames(a)[2])>>
      [] kind = "fundamental_consistency" -> <<ProbeNames(a)[1], NameSA>>
      [] kind = "modularity" -> <<ProbeNames(a)[1], NameU>>

\* names for base answers that already mention the argument to be added
BaseProbes(kind, a) ==
    IF kind = "isomorphism" THEN ProbeNames(a)
    ELSE <<ProbeNames(a)[1], Transformed(kind, a).meta>>

PairKinds == {"isomorphism", "fundamental_consistency", "modularity"}

-----------------------------------------------------------------------------
(* The calls *)

CallFundamentalProperties ==
    /\ call = "none" /\ meta.kind = "single"
    /\ call' = "verify_fundamental_properties"
    /\ out' = verify_fundamental_properties(af, orig)
    /\ UNCHANGED <<af, orig, trans, meta>>

CallValidity ==
    /\ call = "none" /\ meta.kind = "single"
    /\ call' = "verify_validity"
    /\ out' = verify_validity(af, orig)
    /\ UNCHANGED <<af, orig, trans, meta>>

CallIsomorphism ==
    /\ call = "none" /\ meta.kind = "isomorphism"
    /\ call' = "verify_isomorphism"
    /\ out' = verify_isomorphism(orig, trans, meta.name)
    /\ UNCHANGED <<af, orig, trans, meta>>

CallFundamentalConsistency ==
    /\ call = "none" /\ meta.kind = "fundamental_consistency"
    /\ call' = "verify_fundamental_consistency"
    /\ out' = verify_fundamental_consistency(orig, trans, meta.name)
    /\ UNCHANGED <<af, orig, trans, meta>>

CallModularity ==
    /\ call = "none" /\ meta.kind = "modularity"
    /\ call' = "verify_modularity"
    /\ out' = verify_modularity(orig, trans, meta.name)
    /\ UNCHANGED <<af, orig, trans, meta>>

-----------------------------------------------------------------------------
(* Calls on one AF and one well-formed answer *)

\* the AFs of these calls, of at most MaxN arguments: generated ones, and
\* the images of the smaller ones under fundamental consistency
SingleAFs ==
    GeneratedAFs \cup
    {apply_fundamental_consistency(a, NameSA).af :
        a \in {b \in GeneratedAFs : Len(b.arguments) < MaxN}}

InitSingle ==
    /\ af \in SingleAFs
    /\ orig \in Answers2(af, ProbeNames(af))
    /\ trans = <<>>
    /\ meta = [kind |-> "single", name |-> <<>>]
    /\ call = "none"
    /\ out = NoCall

NextSingle == CallFundamentalProperties \/ CallValidity

SpecSingle == InitSingle /\ [][NextSingle]_vars

-----------------------------------------------------------------------------
(* Calls on a pair of well-formed answers: base AF and transformed AF *)

InitPair ==
    /\ af \in GeneratedAFs
    /\ \E kind \in PairKinds :
        /\ meta = [kind |-> kind, name |-> Transformed(kind, af).meta]
        /\ trans \in Answers1(Transformed(kind, af).af, TransformedProbes(kind, af))
    /\ orig \in Answers1(af, ProbeNames(af)) \cup Answers1(af, BaseProbes(meta.kind, af))
    /\ call = "none"
    /\ out = NoCall

NextPair == CallIsomorphism \/ CallFundamentalConsistency \/ CallModularity

SpecPair == InitPair /\ [][NextPair]_vars

-----------------------------------------------------------------------------
(* Calls on answers of every shape *)

InitShapes ==
    /\ af \in GeneratedAFs
    /\ orig \in Shapes(af, ProbeNames(af))
    /\ \/ /\ meta = [kind |-> "single", name |-> <<>>]
          /\ trans = <<>>
       \/ \E kind \in PairKinds :
            /\ meta = [kind |-> kind, name |-> Transformed(kind, af).meta]
            /\ trans \in Shapes(Transformed(kind, af).af, TransformedProbes(kind, af))
    /\ call = "none"
    /\ out = NoCall

NextShapes ==
    \/ CallFundamentalProperties
    \/ CallValidity
    \/ CallIsomorphism
    \/ CallFundamentalConsistency
    \/ CallModularity

SpecShapes == InitShapes /\ [][NextShapes]_vars

-----------------------------------------------------------------------------
(* Calls of verify_defense_dynamics *)

\* run_evaluation reaches apply_defense_dynamics after it has built the
\* fundamental-consistency and the modularity AF over the same arguments
BuiltBefore(a) ==
    LET o == ObjectsOf(a)
        sa_argument == Argument(NameSA, 1, NameSA)
        u_argument == Argument(NameU, 2, NameU)
    IN <<o, Extended(o, sa_argument, <<<<sa_argument, sa_argument>>>>),
         Extended(o, u_argument, <<>>)>>

\* the names a grounded extension is built from in these calls
DDNames(dd) ==
    Dedup(<<dd.defender.name, dd.attacker.name, dd.target.name>> \o dd.target.ingoing)

\* values of the GE tag: one extension for every set of the names, no
\* extension at all, and two extensions of which the first counts
GEPool(names) ==
    {ListTag(<<Ext(SetToSeq(S))>>) : S \in SUBSET Range(names)}
    \cup {ListTag(<<>>),
          ListTag(<<Ext(<<names[1]>>), Ext(<<names[2]>>)>>),
          ListTag(<<Ext(<<names[Len(names)]>>), Ext(<<names[1]>>)>>)}

\* the true family with other values under GE
WithGE(fam, values) == {fam} \cup {SetKey(fam, "GE", v) : v \in values}

CallDefenseDynamics ==
    /\ call = "none" /\ meta.kind = "defense_dynamics"
    /\ call' = "verify_defense_dynamics"
    /\ out' = verify_defense_dynamics(orig, trans, meta.defender, meta.attacker, meta.target)
    /\ UNCHANGED <<af, orig, trans, meta>>

\* the AFs with at least one defeat
Attacked(afs) == {a \in afs : a.defeats # <<>>}

\* the result of apply_defense_dynamics on every AF with a defeat, for every
\* defeat random.choice may pick and both histories of the Argument objects
DDCases ==
    UNION {{[af |-> a, dd |-> apply_defense_dynamics(ObjectsOf(a), built, k)] :
               k \in DOMAIN a.defeats, built \in {<<ObjectsOf(a)>>, BuiltBefore(a)}} :
           a \in Attacked(GeneratedAFs \cup DirectAFs)}

InitDD ==
    \E c \in DDCases :
        /\ af = c.af
        /\ meta = [kind |-> "defense_dynamics", name |-> c.dd.defender.name,
                   defender |-> c.dd.defender, attacker |-> c.dd.attacker,
                   target |-> c.dd.target]
        /\ trans \in WithGE(TrueFamily(c.dd.af), GEPool(DDNames(c.dd)))
                     \cup {TrueFamily(c.dd.af)}
        /\ orig \in WithGE(TrueFamily(c.af),
                           {ListTag(<<Ext(<<c.dd.target.name>>)>>),
                            ListTag(<<Ext(<<>>)>>), ListTag(<<>>)})
                    \cup {TrueFamily(c.af)}
        /\ call = "none"
        /\ out = NoCall

NextDD == CallDefenseDynamics

SpecDD == InitDD /\ [][NextDD]_vars

-----------------------------------------------------------------------------
(* A call repeated on the same answers listed another way *)

\* the same family with the value of one tag written another way: two
\* neighbouring extensions exchanged, one extension listed once more, two
\* neighbouring names of an extension exchanged, or one name written once more
Relisted(fam) ==
    LET SwapAt(s, i) ==
            [k \in DOMAIN s |->
                IF k = i THEN s[i + 1] ELSE IF k = i + 1 THEN s[i] ELSE s[k]]
        RelistedItem(item) ==
            {[item EXCEPT !.elems = SwapAt(@, j)] : j \in 1..(Len(item.elems) - 1)}
            \cup {[item EXCEPT !.elems = Append(@, item.elems[j])] :
                      j \in DOMAIN item.elems}
        RelistedTag(v) ==
            {[v EXCEPT !.items = SwapAt(@, i)] : i \in 1..(Len(v.items) - 1)}
            \cup {[v EXCEPT !.items = Append(@, v.items[i])] : i \in DOMAIN v.items}
            \cup UNION {{[v EXCEPT !.items[i] = it] : it \in RelistedItem(v.items[i])} :
                          i \in DOMAIN v.items}
    IN UNION {{SetKey(fam, fam[i][1], v) : v \in RelistedTag(fam[i][2])} :
                 i \in DOMAIN fam}

\* the function a call names, applied to the answers given
Verify(fn, o, t) ==
    CASE fn = "verify_fundamental_properties" -> verify_fundamental_properties(af, o)
      [] fn = "verify_validity" -> verify_validity(af, o)
      [] fn = "verify_isomorphism" -> verify_isomorphism(o, t, meta.name)
      [] fn = "verify_fundamental_consistency" -> verify_fundamental_consistency(o, t, meta.name)
      [] fn = "verify_modularity" -> verify_modularity(o, t, meta.name)
      [] fn = "verify_defense_dynamics" ->
            verify_defense_dynamics(o, t, meta.defender, meta.attacker, meta.target)

\* the function just called is called again, on the same answers with one
\* family written another way
CallAgainRelisted ==
    /\ call \in {"verify_fundamental_properties", "verify_validity",
                 "verify_isomorphism", "verify_fundamental_consistency",
                 "verify_modularity", "verify_defense_dynamics"}
    /\ \/ orig' \in Relisted(orig) /\ trans' = trans
       \/ meta.kind # "single" /\ trans' \in Relisted(trans) /\ orig' = orig
    /\ call' = "again"
    /\ out' = Verify(call, orig', trans')
    /\ UNCHANGED <<af, meta>>

\* calls on a chain and on a cycle of two arguments, with answers of which
\* at most one family differs from the true one
InitRelist ==
    LET OneSided(a, b, names_a, names_b) ==
            {<<o, TrueFamily(b)>> : o \in Answers1(a, names_a)}
            \cup {<<TrueFamily(a), t>> : t \in Answers1(b, names_b)}
    IN
    /\ af \in {generate_linear_attack_chain(2).af, generate_cycle(2).af}
    /\ \/ /\ meta = [kind |-> "single", name |-> <<>>]
          /\ orig \in Answers1(af, ProbeNames(af))
          /\ trans = <<>>
       \/ \E kind \in PairKinds :
            /\ meta = [kind |-> kind, name |-> Transformed(kind, af).meta]
            /\ \E p \in OneSided(af, Transformed(kind, af).af,
                                  ProbeNames(af), TransformedProbes(kind, af)) :
                  orig = p[1] /\ trans = p[2]
       \/ \E c \in {d \in DDCases : d.af = af} :
            /\ meta = [kind |-> "defense_dynamics", name |-> c.dd.defender.name,
                       defender |-> c.dd.defender, attacker |-> c.dd.attacker,
                       target |-> c.dd.target]
            /\ \E p \in OneSided(af, c.dd.af, ProbeNames(af),
                                  <<c.dd.defender.name, c.dd.target.name>>) :
                  orig = p[1] /\ trans = p[2]
    /\ call = "none"
    /\ out = NoCall

NextRelist ==
    \/ CallFundamentalProperties
    \/ CallValidity
    \/ CallIsomorphism
    \/ CallFundamentalConsistency
    \/ CallModularity
    \/ CallDefenseDynamics
    \/ CallAgainRelisted

SpecRelist == InitRelist /\ [][NextRelist]_vars

-----------------------------------------------------------------------------
(* The calls of LogicTester.run_evaluation: the answers are the true extensions *)

\* one call setting per generated AF and test: the base AF and each
\* transformed AF for the fundamental properties and validity, and each
\* transformation with the true answers for its relation
InitOracle ==
    \E a \in GeneratedAFs :
        LET dds == {apply_defense_dynamics(ObjectsOf(a), BuiltBefore(a), k) : k \in DOMAIN a.defeats}
        IN
        /\ \/ /\ af \in {a} \cup {Transformed(kind, a).af : kind \in PairKinds}
                          \cup {dd.af : dd \in dds}
              /\ meta = [kind |-> "single", name |-> <<>>]
              /\ orig = TrueFamily(af)
              /\ trans = <<>>
           \/ \E kind \in PairKinds :
                /\ af = a
                /\ meta = [kind |-> kind, name |-> Transformed(kind, a).meta]
                /\ orig = TrueFamily(a)
                /\ trans = TrueFamily(Transformed(kind, a).af)
           \/ \E dd \in dds :
                /\ af = a
                /\ meta = [kind |-> "defense_dynamics", name |-> dd.defender.name,
                           defender |-> dd.defender, attacker |-> dd.attacker,
                           target |-> dd.target]
                /\ orig = TrueFamily(a)
                /\ trans = TrueFamily(dd.af)
        /\ call = "none"
        /\ out = NoCall

NextOracle ==
    \/ CallFundamentalProperties
    \/ CallValidity
    \/ CallIsomorphism
    \/ CallFundamentalConsistency
    \/ CallModularity
    \/ CallDefenseDynamics

SpecOracle == InitOracle /\ [][NextOracle]_vars

-----------------------------------------------------------------------------
(* Building AFs: the generators and the transformations of af_utils *)

\* In these states af is the AF in hand, call the function of af_utils called
\* last, out.exc the exception it raised, and meta what the call was given
\* and returned: arg (the size, renaming map or selected attack), name (the
\* returned map or added name), base (the AF the call was given), base_built
\* and built (the AFs constructed before the call and up to its end, in the
\* order of construction, as the objects they hold), objects (the objects of
\* af: the AF constructed last), steps (the transformations applied) and the
\* three Argument objects apply_defense_dynamics returns.
BuildMeta(kind, arg, name, base, base_built, built, steps) ==
    [kind |-> kind, arg |-> arg, name |-> name, base |-> base,
     base_built |-> base_built, built |-> built, steps |-> steps,
     objects |-> IF built = <<>> THEN Objects(<<>>, <<>>) ELSE built[Len(built)],
     defender |-> NoArgument, attacker |-> NoArgument, target |-> NoArgument]

\* generator(n), for every generator and every size from -MaxN to MaxN
CallGenerator ==
    /\ call = "none" /\ af = MakeAF(<<>>, <<>>)
    /\ \E g \in GeneratorNames, n \in (0 - MaxN)..MaxN :
          LET res == Generate(g, n)
          IN /\ call' = g
             /\ out' = IF res.ok THEN Returned(EmptyReport) ELSE Raised("ValueError")
             /\ af' = IF res.ok THEN res.af ELSE af
             /\ meta' = BuildMeta("generator", n, <<>>, af, meta.built,
                                  IF res.ok THEN <<ObjectsOf(res.af)>> ELSE <<>>, 0)
    /\ UNCHANGED <<orig, trans>>

\* apply_isomorphism(af, renaming_map), for the default prefix, two names
\* exchanged, one name mapped onto another (not injective), one name replaced
ApplyIsomorphism ==
    LET names == ArgNames(af)
        Id == [x \in names |-> x]
        RenamingMaps ==
            {[x \in names |-> Rename(DefaultPrefix, x)]}
            \cup (IF Len(af.arguments) < 2 THEN {}
                  ELSE LET x1 == af.arguments[1]
                           x2 == af.arguments[2]
                       IN {[Id EXCEPT ![x1] = x2, ![x2] = x1], [Id EXCEPT ![x1] = x2],
                           [Id EXCEPT ![x1] = NameZ1]})
    IN
    /\ "steps" \in DOMAIN meta /\ meta.steps < MaxSteps
    /\ \E r \in RenamingMaps :
          LET res == apply_isomorphism_by(af, r)
          IN /\ af' = res.af
             /\ meta' = BuildMeta("isomorphism", r, res.meta, af, meta.built,
                                  meta.built \o <<Renamed(meta.objects, r, Len(meta.built))>>,
                                  meta.steps + 1)
    /\ call' = "apply_isomorphism"
    /\ out' = Returned(EmptyReport)
    /\ UNCHANGED <<orig, trans>>

ApplyFundamentalConsistency ==
    /\ "steps" \in DOMAIN meta /\ meta.steps < MaxSteps
    /\ LET res == apply_fundamental_consistency(af, NameSA)
           sa_argument == Argument(NameSA, Len(meta.built), NameSA)
           built == meta.built
                    \o <<Extended(meta.objects, sa_argument, <<<<sa_argument, sa_argument>>>>)>>
       IN /\ af' = res.af
          /\ meta' = BuildMeta("fundamental_consistency", NameSA, res.meta, af,
                               built, built, meta.steps + 1)
    /\ call' = "apply_fundamental_consistency"
    /\ out' = Returned(EmptyReport)
    /\ UNCHANGED <<orig, trans>>

ApplyModularity ==
    /\ "steps" \in DOMAIN meta /\ meta.steps < MaxSteps
    /\ LET res == apply_modularity(af, NameU)
           u_argument == Argument(NameU, Len(meta.built), NameU)
           built == meta.built \o <<Extended(meta.objects, u_argument, <<>>)>>
       IN /\ af' = res.af
          /\ meta' = BuildMeta("modularity", NameU, res.meta, af,
                               built, built, meta.steps + 1)
    /\ call' = "apply_modularity"
    /\ out' = Returned(EmptyReport)
    /\ UNCHANGED <<orig, trans>>

\* random.choice takes any of the defeats; with none the call raises
ApplyDefenseDynamics ==
    /\ "steps" \in DOMAIN meta /\ meta.steps < MaxSteps
    /\ \E choice \in IF af.defeats = <<>> THEN {0} ELSE DOMAIN af.defeats :
          LET res == apply_defense_dynamics(meta.objects, meta.built, choice)
          IN IF res.ok
             THEN /\ af' = res.af
                  /\ meta' = [BuildMeta("defense_dynamics", choice, res.defender.name,
                                        af, meta.built \o <<res.objects>>,
                                        meta.built \o <<res.objects>>, meta.steps + 1)
                                 EXCEPT !.defender = res.defender,
                                        !.attacker = res.attacker,
                                        !.target = res.target]
                  /\ out' = Returned(EmptyReport)
             ELSE /\ af' = af
                  /\ meta' = BuildMeta("defense_dynamics", choice, <<>>, af,
                                       meta.built, meta.built, meta.steps + 1)
                  /\ out' = Raised("ValueError")
    /\ call' = "apply_defense_dynamics"
    /\ UNCHANGED <<orig, trans>>

\* no AF yet (a generator is called next), or an AF constructed directly
InitBuild ==
    /\ af \in {MakeAF(<<>>, <<>>)} \cup DirectAFs \cup DefenderNamedAFs
    /\ meta = BuildMeta("none", <<>>, <<>>, af, <<ObjectsOf(af)>>, <<ObjectsOf(af)>>, 0)
    /\ orig = <<>>
    /\ trans = <<>>
    /\ call = "none"
    /\ out = NoCall

NextBuild ==
    \/ CallGenerator
    \/ ApplyIsomorphism
    \/ ApplyFundamentalConsistency
    \/ ApplyModularity
    \/ ApplyDefenseDynamics

SpecBuild == InitBuild /\ [][NextBuild]_vars

-----------------------------------------------------------------------------
(* LLMTester.run_evaluation *)

\* In these states call is the state of the pair in progress ("BASE",
\* "VALIDITY", "ISOMORPHISM", "FUNDAMENTAL_CONSISTENCY", "MODULARITY",
\* "DEFENSE_DYNAMICS", and "DONE" after the loop), af the base AF, orig the
\* base family, trans the family last obtained for a transformed AF, out
\* self.results (for each pair, the entries recorded so far by column) and
\* meta the run: pairs (the (generator, n) pairs in loop order), i (the
\* index of the pair in progress), queries (the oracle queries made, as
\* <<pair index, state, behaviour>>) and faults (the queries not answered correctly).

\* what _get_llm_response_for_af gives for one behaviour of the oracle: the
\* true family, a well-formed wrong one, the empty mapping of an unparseable
\* response, a description instead of a name, an extra key, or an exception
OracleBehaviours ==
    {"true", "wrong", "unparseable", "text", "extra", "TimeoutError", "Exception"}

Oracle(a, behaviour) ==
    CHOOSE r \in
        {CASE behaviour = "true" -> [exc |-> "none", fam |-> family]
           [] behaviour = "wrong" ->
                 [exc |-> "none",
                  fam |-> [i \in 1..4 |-> <<ExtTypes[i], ListTag(<<Ext(<<>>)>>)>>]]
           [] behaviour = "unparseable" -> [exc |-> "none", fam |-> <<>>]
           [] behaviour = "text" ->
                 [exc |-> "none",
                  fam |-> SetKey(family, "GE", ListTag(<<Ext(<<<<"A", " ", "1">>>>)>>))]
           [] behaviour = "extra" ->
                 [exc |-> "none", fam |-> family \o <<<<"XX", IntTag>>>>]
           [] OTHER -> [exc |-> behaviour, fam |-> <<>>] :
         family \in {TrueFamily(a)}} : TRUE

FailedEntry_AlwaysError(exc, msg) ==
    [status |-> "Error", violations |-> ("ERROR" :> <<msg>>)]

\* the entry an except clause records
FailedEntry(exc, msg) ==
    IF exc = "TimeoutError"
    THEN [status |-> "Request Timeout", violations |-> ("TIMEOUT" :> <<msg>>)]
    ELSE [status |-> "Error", violations |-> ("ERROR" :> <<msg>>)]

\* the entry of a state that queried the oracle (r) and checked the answer
\* (fp, then mr): {**fp_violations, **mr_violations}, or the except clause
StateEntry(r, fp, mr) ==
    IF r.exc # "none" THEN FailedEntry(r.exc, <<"str(e)">>)
    ELSE IF fp.exc # "none" THEN FailedEntry(fp.exc, <<"str(e)">>)
    ELSE IF mr.exc # "none" THEN FailedEntry(mr.exc, <<"str(e)">>)
    ELSE LET all_violations == mr.report @@ fp.report
         IN [status |-> IF DOMAIN all_violations = {} THEN "PASS" ELSE "FAIL",
             violations |-> all_violations]

Recorded_Reset(column, entry) ==
    [out EXCEPT ![meta.i] = (column :> entry)]

\* self.results[af_name][n][column] = entry, for the pair in progress
Recorded(column, entry) ==
    [out EXCEPT ![meta.i] =
        [c \in DOMAIN @ \cup {column} |-> IF c = column THEN entry ELSE @[c]]]

Queried_Twice(state, behaviour, next_i) ==
    [meta EXCEPT !.queries = @ \o <<<<meta.i, state, behaviour>>, <<meta.i, state, behaviour>>>>,
                 !.faults = @ + (IF behaviour = "true" THEN 0 ELSE 1),
                 !.i = next_i]

\* the run after one query with the given behaviour, at the given pair index
Queried(state, behaviour, next_i) ==
    [meta EXCEPT !.queries = Append(@, <<meta.i, state, behaviour>>),
                 !.faults = @ + (IF behaviour = "true" THEN 0 ELSE 1),
                 !.i = next_i]

Columns ==
    <<"base", "validity", "isomorphism", "fundamental_consistency", "modularity",
      "defense_dynamics">>

\* the runs: generators NC and LAC with sizes [2], CYC with sizes [2, MaxN],
\* STMA with sizes [MaxN]; the pairs in loop order
RunConfigurations ==
    {<<<<"NC", 2>>, <<"LAC", 2>>>>,
     <<<<"CYC", 2>>, <<"CYC", MaxN>>>>,
     <<<<"STMA", MaxN>>>>}

\* the behaviours a query may still show
Behaviours == IF meta.faults < MaxFaults THEN OracleBehaviours ELSE {"true"}

\* lines 61-266: the try statement of one state for one behaviour of the
\* oracle: the transformation (none in the base and validity states), the
\* query (none in the validity state), the fundamental properties of the
\* answer on the AF queried and the check of the state (the relation with
\* the base family, or validity); the family obtained and the entry recorded
\* (t and r name the transformation's result and the oracle's)
StateResult(base_af, base_extensions, state, b, choice) ==
    CHOOSE res \in UNION {{
        [fam |-> r.fam,
         entry |-> StateEntry(r,
            IF state = "VALIDITY" THEN Returned(EmptyReport)
            ELSE verify_fundamental_properties(t.af, r.fam),
            CASE state = "BASE" -> Returned(EmptyReport)
              [] state = "VALIDITY" -> verify_validity(base_af, base_extensions)
              [] state = "ISOMORPHISM" ->
                    verify_isomorphism(base_extensions, r.fam, t.meta)
              [] state = "FUNDAMENTAL_CONSISTENCY" ->
                    verify_fundamental_consistency(base_extensions, r.fam, t.meta)
              [] state = "MODULARITY" ->
                    verify_modularity(base_extensions, r.fam, t.meta)
              [] OTHER ->
                    verify_defense_dynamics(base_extensions, r.fam, t.defender,
                                            t.attacker, t.target))] :
            r \in {IF state = "VALIDITY" THEN [exc |-> "none", fam |-> base_extensions]
                   ELSE Oracle(t.af, b)}} :
            t \in {CASE state \in {"BASE", "VALIDITY"} -> [af |-> base_af]
                     [] state = "ISOMORPHISM" -> apply_isomorphism(base_af, DefaultPrefix)
                     [] state = "FUNDAMENTAL_CONSISTENCY" ->
                           apply_fundamental_consistency(base_af, NameSA)
                     [] state = "MODULARITY" -> apply_modularity(base_af, NameU)
                     [] OTHER ->
                           apply_defense_dynamics(ObjectsOf(base_af), BuiltBefore(base_af), choice)}} :
        TRUE

\* StateResult, computed once for every base AF of a configuration, every
\* base family the oracle may have given for it (none yet in the base
\* state), every state, behaviour and choice of an attack
StateResults ==
    [k \in UNION {
        {x \in {<<a, o.fam, state, b, choice>> :
                    o \in {Oracle(a, b0) : b0 \in OracleBehaviours},
                    state \in {"BASE", "VALIDITY", "ISOMORPHISM", "FUNDAMENTAL_CONSISTENCY",
                               "MODULARITY", "DEFENSE_DYNAMICS"},
                    b \in OracleBehaviours,
                    choice \in {1} \cup DOMAIN a.defeats} :
            CASE x[3] = "DEFENSE_DYNAMICS" -> a.defeats # <<>>
              [] x[3] = "BASE" -> x[2] = <<>> /\ x[5] = 1
              [] x[3] = "VALIDITY" -> x[4] = "true" /\ x[5] = 1
              [] OTHER -> x[5] = 1} :
        a \in UNION {{Generate(c[k][1], c[k][2]).af : k \in DOMAIN c} :
                        c \in RunConfigurations}}
     |-> StateResult(k[1], k[2], k[3], k[4], k[5])]

\* lines 60-110: the generator, then the base state; an exception records
\* all six columns and ends the pair
RunBase ==
    /\ call = "BASE" /\ meta.kind = "run" /\ meta.i <= Len(meta.pairs)
    /\ \E b \in Behaviours :
       \E base_af \in {Generate(meta.pairs[meta.i][1], meta.pairs[meta.i][2]).af} :
       \E res \in {StateResults[<<base_af, <<>>, "BASE", b, 1>>]} :
          /\ af' = base_af
          /\ trans' = <<>>
          /\ IF res.entry.status \in {"PASS", "FAIL"}
             THEN /\ orig' = res.fam
                  /\ out' = Recorded("base", res.entry)
                  /\ meta' = Queried("BASE", b, meta.i)
                  /\ call' = "VALIDITY"
             ELSE /\ orig' = <<>>
                  /\ out' = [out EXCEPT ![meta.i] =
                                [c \in Range(Columns) |->
                                    IF c = "base" THEN res.entry
                                    ELSE IF res.entry.status = "Request Timeout"
                                    THEN FailedEntry("TimeoutError",
                                            <<"All other tests aborted due to timeout.">>)
                                    ELSE FailedEntry("Exception",
                                            <<"All other tests aborted due to unexpected error">>)]]
                  /\ meta' = Queried("BASE", b, meta.i + 1)
                  /\ call' = "BASE"

\* lines 112-129: no query; any exception is recorded as an error
RunValidity ==
    /\ call = "VALIDITY"
    /\ out' = Recorded("validity", StateResults[<<af, orig, "VALIDITY", "true", 1>>].entry)
    /\ call' = "ISOMORPHISM"
    /\ UNCHANGED <<af, orig, trans, meta>>

\* lines 132-266: the isomorphism, fundamental-consistency, modularity and
\* defense-dynamics states, each followed by the next one; after modularity
\* the test of base_af.defeats enters the defense-dynamics state or ends the
\* pair; in that state random.choice may take any attack
RunMetamorphic ==
    /\ call \in {"ISOMORPHISM", "FUNDAMENTAL_CONSISTENCY", "MODULARITY", "DEFENSE_DYNAMICS"}
    /\ call' = CASE call = "ISOMORPHISM" -> "FUNDAMENTAL_CONSISTENCY"
                 [] call = "FUNDAMENTAL_CONSISTENCY" -> "MODULARITY"
                 [] call = "MODULARITY" /\ af.defeats # <<>> -> "DEFENSE_DYNAMICS"
                 [] OTHER -> "BASE"
    /\ \E b \in Behaviours,
          choice \in IF call = "DEFENSE_DYNAMICS" THEN DOMAIN af.defeats ELSE {1} :
       \E res \in {StateResults[<<af, orig, call, b, choice>>]} :
          /\ trans' = res.fam
          /\ out' = Recorded(CASE call = "ISOMORPHISM" -> "isomorphism"
                               [] call = "FUNDAMENTAL_CONSISTENCY" -> "fundamental_consistency"
                               [] call = "MODULARITY" -> "modularity"
                               [] OTHER -> "defense_dynamics",
                             res.entry)
          /\ meta' = Queried(call, b, IF call' = "BASE" THEN meta.i + 1 ELSE meta.i)
    /\ UNCHANGED <<af, orig>>

RunFinish_Never ==
    /\ call = "BASE" /\ meta.kind = "run" /\ meta.i > Len(meta.pairs)
    /\ FALSE
    /\ UNCHANGED <<af, orig, trans, meta, out, call>>

\* lines 268-272: the loop is over, the report is exported
RunFinish ==
    /\ call = "BASE" /\ meta.kind = "run" /\ meta.i > Len(meta.pairs)
    /\ call' = "DONE"
    /\ UNCHANGED <<af, orig, trans, meta, out>>

\* a run is configured with generators and sizes valid for each of them; the
\* pairs are taken generator by generator, size by size
InitRun ==
    /\ \E pairs \in RunConfigurations :
          /\ meta = [kind |-> "run", pairs |-> pairs, i |-> 1, queries |-> <<>>,
                     faults |-> 0]
          /\ out = [p \in DOMAIN pairs |-> EmptyReport]
    /\ af = MakeAF(<<>>, <<>>)
    /\ orig = <<>>
    /\ trans = <<>>
    /\ call = "BASE"

NextRun ==
    \/ RunBase
    \/ RunValidity
    \/ RunMetamorphic
    \/ RunFinish

SpecRun == InitRun /\ [][NextRun]_vars

\* run_evaluation is one sequential call: while a statement remains, the
\* next one is executed (a query ends, with an answer or an exception)
SpecRunFair == SpecRun /\ WF_vars(NextRun)

-----------------------------------------------------------------------------
(* LLMClient.query_llm_for_extensions and the clause that records it *)

\* In these states meta is the client and the query in progress: client (the
\* class), MAX_RETRIES and RETRY_DELAY_SECONDS (its configuration), attempt
\* (the requests sent so far) and log (the events so far: <<"attempt",
\* outcome>> for a request and what came back, <<"sleep", seconds>> for a
\* time.sleep); call is "query" while the query runs, "returned" or "raised"
\* when it is over and "recorded" after the orchestrator's try statement;
\* af is the base AF the query is about; out is the result of the query and
\* the status recorded for the base state.

\* one request: the single call of OpenAIClient, one iteration of the loop
\* of GeminiClient and OllamaClient. The request returns a response, raises
\* the library's timeout exception, or raises something else.
QueryAttempt ==
    /\ call = "query" /\ meta.kind = "client"
    /\ LET raises == CASE meta.client = "OpenAIClient" -> {"APITimeoutError", "Exception"}
                       [] meta.client = "GeminiClient" ->
                             {"ServerError", "ReadTimeout", "Exception"}
                       [] OTHER -> {"requests.Timeout", "Exception"}
           caught == CASE meta.client = "OpenAIClient" -> {}
                       [] meta.client = "GeminiClient" -> {"ServerError", "ReadTimeout"}
                       [] OTHER -> {"requests.Timeout"}
       IN \E outcome \in {"response"} \cup raises :
             IF outcome \in caught /\ meta.attempt < meta.MAX_RETRIES - 1
             THEN /\ meta' = [meta EXCEPT
                                !.attempt = @ + 1,
                                !.log = @ \o <<<<"attempt", outcome>>,
                                               <<"sleep", meta.RETRY_DELAY_SECONDS>>>>]
                  /\ call' = "query"
                  /\ out' = out
             ELSE /\ meta' = [meta EXCEPT !.attempt = @ + 1,
                                          !.log = Append(@, <<"attempt", outcome>>)]
                  /\ call' = IF outcome = "response" THEN "returned" ELSE "raised"
                  /\ out' = [exc |-> CASE outcome = "response" -> "none"
                                        [] outcome \in caught -> "TimeoutError"
                                        [] OTHER -> outcome,
                             status |-> "none"]
    /\ UNCHANGED <<af, orig, trans>>

\* the try statement around the query in run_evaluation: except
\* TimeoutError and except Exception for a query that raised; for one that
\* returned, the reply is parsed and checked inside the same try statement,
\* which records PASS or FAIL, or Error when the checks raise on the reply
RecordQuery ==
    /\ call \in {"returned", "raised"} /\ meta.kind = "client"
    /\ \E b \in IF out.exc = "none"
                THEN {"true", "wrong", "unparseable", "text", "extra"}
                ELSE {out.exc} :
         out' = [out EXCEPT !.status =
                    IF out.exc = "none"
                    THEN StateResults[<<af, <<>>, "BASE", b, 1>>].entry.status
                    ELSE FailedEntry(out.exc, <<"str(e)">>).status]
    /\ call' = "recorded"
    /\ UNCHANGED <<af, orig, trans, meta>>

\* a client of one of the three classes, configured with at least one try;
\* 5 seconds is the default delay
InitClient ==
    /\ \E c \in {"OpenAIClient", "GeminiClient", "OllamaClient"},
          m \in 1..MaxRetries, d \in {1, 5} :
          meta = [kind |-> "client", client |-> c, MAX_RETRIES |-> m,
                  RETRY_DELAY_SECONDS |-> d, attempt |-> 0, log |-> <<>>]
    /\ out = [exc |-> "none", status |-> "none"]
    /\ call = "query"
    /\ af = generate_linear_attack_chain(2).af
    /\ orig = <<>>
    /\ trans = <<>>

NextClient ==
    \/ QueryAttempt
    \/ RecordQuery

SpecClient == InitClient /\ [][NextClient]_vars

\* all calls on all inputs
Init ==
    \/ InitSingle
    \/ InitPair
    \/ InitShapes
    \/ InitDD
    \/ InitRelist
    \/ InitOracle
    \/ InitBuild
    \/ InitRun
    \/ InitClient

Next ==
    \/ CallFundamentalProperties
    \/ CallValidity
    \/ CallIsomorphism
    \/ CallFundamentalConsistency
    \/ CallModularity
    \/ CallDefenseDynamics
    \/ CallAgainRelisted
    \/ CallGenerator
    \/ ApplyIsomorphism
    \/ ApplyFundamentalConsistency
    \/ ApplyModularity
    \/ ApplyDefenseDynamics
    \/ RunBase
    \/ RunValidity
    \/ RunMetamorphic
    \/ RunFinish
    \/ QueryAttempt
    \/ RecordQuery

Spec == Init /\ [][Next]_vars

-----------------------------------------------------------------------------
(* Vocabulary of the properties *)

IsWhitespace(c) == c \in {" ", "\t", "\n"}

\* every listed extension element of the four tags
ElementsOf(fam) ==
    UNION {UNION {Range(fam[i][2].items[j].elems) : j \in DOMAIN fam[i][2].items} :
             i \in {k \in DOMAIN fam : fam[k][1] \in TagSet}}

\* an element that is not a string, or a string with a whitespace character
BadElement(e) == e.type # "str" \/ \E i \in DOMAIN e.val : IsWhitespace(e.val[i])

\* a mapping with exactly the four keys, each a list of lists of strings
ShapeOK(fam) ==
    /\ Len(fam) = 4 /\ Keys(fam) = TagSet
    /\ \A i \in DOMAIN fam :
        /\ fam[i][2].type = "list"
        /\ \A j \in DOMAIN fam[i][2].items :
            /\ fam[i][2].items[j].type = "list"
            /\ \A e \in Range(fam[i][2].items[j].elems) : e.type = "str"

\* the oracle output schema
WellFormed(fam) == ShapeOK(fam) /\ \A e \in ElementsOf(fam) : ~BadElement(e)

\* the distinct extensions listed under a tag, as sets of names
Claimed(fam, t) == {Range([i \in DOMAIN it.elems |-> it.elems[i].val]) : it \in Range(Get(fam, t).items)}

\* every extension listed under any key, as sets of names
AllClaimed(fam) == UNION {Claimed(fam, fam[i][1]) : i \in DOMAIN fam}

SchemaKeys == {"SCHEMA-ERROR", "SCHEMA-VERIFICATION-FAILED"}

Reported == DOMAIN out.report
Pairwise == meta.kind # "single"

\* argumentation semantics, stated from the definitions
CharF(S, a) ==
    {x \in ArgNames(a) :
        \A d \in Attacks(a) : d[2] = x => \E z \in S : <<z, d[1]>> \in Attacks(a)}
NoConflict(S, a) == ~\E x \in S, y \in S : <<x, y>> \in Attacks(a)
Admissible(S, a) == NoConflict(S, a) /\ S \subseteq CharF(S, a)
RECURSIVE LeastFixpoint(_, _)
LeastFixpoint(S, a) == IF CharF(S, a) = S THEN S ELSE LeastFixpoint(CharF(S, a), a)
TruthOf(a, t) ==
    CASE t = "GE" -> {LeastFixpoint({}, a)}
      [] t = "CE" -> {S \in SUBSET ArgNames(a) : Admissible(S, a) /\ CharF(S, a) \subseteq S}
      [] t = "PE" -> LET adm == {S \in SUBSET ArgNames(a) : Admissible(S, a)}
                     IN {S \in adm : \A R \in adm : S \subseteq R => R = S}
      [] t = "SE" -> {S \in SUBSET ArgNames(a) :
                        S = {x \in ArgNames(a) : ~\E y \in S : <<y, x>> \in Attacks(a)}}
TruthTable == [a \in QueriedAFs |-> [t \in TagSet |-> TruthOf(a, t)]]
Truth(a, t) == TruthTable[a][t]

-----------------------------------------------------------------------------
(* Properties *)

\* C1: on a well-formed family verify_fundamental_properties reports each
\* of FP-1..FP-5 exactly when its own condition fails, whatever the others
\* do: FP-1 iff GE is not a subset of CE, FP-2 iff PE is not a subset of CE,
\* FP-3 iff SE is not a subset of PE, FP-4 iff more than one distinct GE
\* extension is listed, FP-5 iff no PE extension is listed.
C1_FP1to5Independent ==
    (call = "verify_fundamental_properties" /\ WellFormed(orig)) =>
        /\ out.exc = "none"
        /\ ("FP-1" \in Reported) <=> ~(Claimed(orig, "GE") \subseteq Claimed(orig, "CE"))
        /\ ("FP-2" \in Reported) <=> ~(Claimed(orig, "PE") \subseteq Claimed(orig, "CE"))
        /\ ("FP-3" \in Reported) <=> ~(Claimed(orig, "SE") \subseteq Claimed(orig, "PE"))
        /\ ("FP-4" \in Reported) <=> (Cardinality(Claimed(orig, "GE")) > 1)
        /\ ("FP-5" \in Reported) <=> (Claimed(orig, "PE") = {})

\* a family that fails FP-1, FP-3, FP-4 and FP-5 at once, but not FP-2
C1_Witness ==
    /\ call = "verify_fundamental_properties" /\ WellFormed(orig)
    /\ {"FP-1", "FP-3", "FP-4", "FP-5"} \subseteq Reported
    /\ "FP-2" \notin Reported

\* C2: on a well-formed family verify_fundamental_properties reports FP-6
\* exactly when some listed extension holds two members (possibly the
\* same one) of which one attacks the other, or a name that is no argument
\* of the AF; the unknown name is reported, never raised.
C2_FP6Exact ==
    (call = "verify_fundamental_properties" /\ WellFormed(orig)) =>
        /\ out.exc = "none"
        /\ ("FP-6" \in Reported) <=>
              \E S \in AllClaimed(orig) :
                  \/ \E x \in S, y \in S : <<x, y>> \in Attacks(af)
                  \/ \E x \in S : x \notin ArgNames(af)

\* FP-6 reported for an extension that is conflict-free but for a name the
\* AF does not know
C2_Witness ==
    /\ call = "verify_fundamental_properties" /\ WellFormed(orig)
    /\ "FP-6" \in Reported
    /\ \A S \in AllClaimed(orig) : ~\E x \in S, y \in S : <<x, y>> \in Attacks(af)
    /\ \E S \in AllClaimed(orig) : \E x \in S : x \notin ArgNames(af)

\* FP-6 reported for an extension holding an argument that attacks itself
C2_WitnessSelfAttack ==
    /\ call = "verify_fundamental_properties" /\ WellFormed(orig)
    /\ "FP-6" \in Reported
    /\ \A S \in AllClaimed(orig) : S \subseteq ArgNames(af)
    /\ \A S \in AllClaimed(orig) : \A x \in S, y \in S : <<x, y>> \in Attacks(af) => x = y

\* C3: in every verify_* call, an extension element that is not a string
\* or holds a whitespace character (space, tab, newline) makes the report
\* consist of a schema key alone.
C3_BadElementShortCircuits ==
    (/\ call # "none"
     /\ \/ \E e \in ElementsOf(orig) : BadElement(e)
        \/ Pairwise /\ \E e \in ElementsOf(trans) : BadElement(e)) =>
        /\ out.exc = "none"
        /\ Reported # {} /\ Reported \subseteq SchemaKeys

\* C4: every answer that is not a mapping with exactly the keys GE, CE, PE,
\* SE, each a list of lists of strings, is reported as a schema violation by
\* the call that receives it.
C4_BadShapeReported ==
    (/\ call # "none"
     /\ \/ ~ShapeOK(orig)
        \/ Pairwise /\ ~ShapeOK(trans)) =>
        /\ out.exc = "none"
        /\ Reported \cap SchemaKeys # {}

\* C5: for a well-formed family whose names all belong to the AF,
\* verify_validity reports 'Invalid <TAG>' exactly for the tags whose claimed
\* set of argument sets differs from the ground truth (the grounded
\* extension as a one-element family), and returns the ground-truth family
\* of all four tags; for the 3-cycle a claimed SE = [[A1]] gives 'Invalid SE'.
C5_ValidityExact ==
    (/\ call = "verify_validity" /\ WellFormed(orig)
     /\ \A S \in AllClaimed(orig) : S \subseteq ArgNames(af)) =>
        /\ out.exc = "none"
        /\ Reported = {"Invalid " \o t : t \in {u \in TagSet : Claimed(orig, u) # Truth(af, u)}}
        /\ DOMAIN out.expected = TagSet
        /\ \A t \in TagSet : out.expected[t] = Truth(af, t)
        /\ (af = generate_cycle(3).af /\ Claimed(orig, "SE") = {{ArgA(1)}})
              => "Invalid SE" \in Reported

\* the 3-cycle with SE = [[A1]] claimed
C5_Witness ==
    /\ call = "verify_validity" /\ WellFormed(orig)
    /\ af = generate_cycle(3).af
    /\ Get(orig, "SE") = ListTag(<<Ext(<<ArgA(1)>>)>>)
    /\ "Invalid SE" \in Reported
    /\ out.expected["SE"] = {} /\ out.expected["GE"] = {{}}

\* C6: verify_validity never raises on a well-formed family: a name that is
\* no argument of the AF comes back as an 'Invalid <TAG>' entry together
\* with the ground-truth family.
C6_ValidityNeverRaises ==
    (call = "verify_validity" /\ WellFormed(orig)) =>
        /\ out.exc = "none"
        /\ (\E S \in AllClaimed(orig) : ~(S \subseteq ArgNames(af)))
              => /\ \E t \in TagSet : ("Invalid " \o t) \in Reported
                 /\ DOMAIN out.expected = TagSet

\* the tags whose transformed extensions are not the renamed original ones
IsoBadTags ==
    {t \in TagSet :
        {{Rename(meta.name, x) : x \in E} : E \in Claimed(orig, t)} # Claimed(trans, t)}

\* C7: on well-formed families verify_isomorphism reports MR-ISO exactly
\* when for some tag the set of renamed original extensions differs from the
\* set of transformed extensions, with one message per such tag, and
\* reports nothing else.
C7_IsoExact ==
    (call = "verify_isomorphism" /\ WellFormed(orig) /\ WellFormed(trans)) =>
        /\ out.exc = "none"
        /\ Reported = IF IsoBadTags = {} THEN {} ELSE {"MR-ISO"}
        /\ IsoBadTags # {} =>
              /\ Len(out.report["MR-ISO"]) = Cardinality(IsoBadTags)
              /\ {m[2] : m \in Range(out.report["MR-ISO"])} = IsoBadTags

\* two tags mismatch, two messages; and the other two tags, where the
\* transformed extensions are the renamed non-empty original ones, give none
C7_Witness ==
    /\ call = "verify_isomorphism" /\ WellFormed(orig) /\ WellFormed(trans)
    /\ Cardinality(IsoBadTags) = 2 /\ Len(out.report["MR-ISO"]) = 2
    /\ \E t \in TagSet \ IsoBadTags : \E E \in Claimed(orig, t) : E # {}

\* C8: on well-formed families verify_fundamental_consistency reports MR-FC
\* exactly when the added argument's name occurs in some extension of some
\* tag of the transformed family, or the transformed GE family differs from
\* the original GE family as a set of sets; otherwise the report is empty.
C8_FCExact ==
    (call = "verify_fundamental_consistency" /\ WellFormed(orig) /\ WellFormed(trans)) =>
        /\ out.exc = "none"
        /\ Reported =
              IF \/ \E t \in TagSet : \E E \in Claimed(trans, t) : meta.name \in E
                 \/ Claimed(trans, "GE") # Claimed(orig, "GE")
              THEN {"MR-FC"} ELSE {}

\* MR-FC reported for the added name under a tag other than GE, the GE
\* families being equal
C8_Witness ==
    /\ call = "verify_fundamental_consistency" /\ WellFormed(orig) /\ WellFormed(trans)
    /\ "MR-FC" \in Reported
    /\ Claimed(trans, "GE") = Claimed(orig, "GE")
    /\ \A E \in Claimed(trans, "GE") : meta.name \notin E
    /\ \E E \in Claimed(trans, "SE") : meta.name \in E

\* the only extension of a family that lists exactly one
TheOne(S) == CHOOSE E \in S : TRUE

ModGEDiffers == TheOne(Claimed(trans, "GE")) # TheOne(Claimed(orig, "GE")) \cup {meta.name}

ModBadTags ==
    {t \in {"CE", "PE", "SE"} :
        Claimed(trans, t) # {E \cup {meta.name} : E \in Claimed(orig, t)}}

\* C9: on well-formed families whose GE families each list exactly one
\* extension, verify_modularity with added name u reports MR-MOD exactly
\* when the transformed grounded extension differs from the original one
\* with u added, or for some tag of CE, PE, SE the transformed extensions
\* differ from { E + u : E original }; otherwise the report is empty.
C9_ModExact ==
    (/\ call = "verify_modularity" /\ WellFormed(orig) /\ WellFormed(trans)
     /\ Cardinality(Claimed(orig, "GE")) = 1 /\ Cardinality(Claimed(trans, "GE")) = 1) =>
        /\ out.exc = "none"
        /\ Reported = IF ModGEDiffers \/ ModBadTags # {} THEN {"MR-MOD"} ELSE {}

\* MR-MOD reported for the grounded extension alone
C9_Witness ==
    /\ call = "verify_modularity" /\ WellFormed(orig) /\ WellFormed(trans)
    /\ Cardinality(Claimed(orig, "GE")) = 1 /\ Cardinality(Claimed(trans, "GE")) = 1
    /\ ModGEDiffers /\ ModBadTags = {}
    /\ Reported = {"MR-MOD"}
    /\ \E E \in Claimed(orig, "CE") : E # {}

\* the relation accepted for one tag is the bijection E -> E + u
ModBijection(t) ==
    /\ Cardinality(Claimed(trans, t)) = Cardinality(Claimed(orig, t))
    /\ \A E \in Claimed(trans, t) : (E \ {meta.name}) \in Claimed(orig, t)

ModAccepted ==
    /\ call = "verify_modularity" /\ WellFormed(orig) /\ WellFormed(trans)
    /\ out.exc = "none" /\ Reported = {}

\* C10: whenever verify_modularity reports no violation, each of
\* CE, PE, SE has as many distinct transformed extensions as original ones,
\* and every transformed extension with u removed is an original extension.
C10_AcceptedIsBijection ==
    ModAccepted => \A t \in {"CE", "PE", "SE"} : ModBijection(t)

\* the grounded extension a family reports: the first one listed, the empty
\* set when none is listed
GroundedOf(fam) ==
    LET v == Get(fam, "GE")
    IN IF v.items = <<>> THEN {}
       ELSE {v.items[1].elems[i].val : i \in DOMAIN v.items[1].elems}

DDCall ==
    call = "verify_defense_dynamics" /\ WellFormed(orig) /\ WellFormed(trans)

\* C11: on well-formed families verify_defense_dynamics reports MR-DD.1
\* exactly when the defender's name is not in the transformed grounded
\* extension (an absent GE counting as empty) and MR-DD.2 exactly when the
\* attacker's name is in it, each whatever the other and MR-DD.3 do.
C11_DD1and2Exact ==
    DDCall =>
        /\ out.exc = "none"
        /\ Reported \subseteq {"MR-DD.1", "MR-DD.2", "MR-DD.3"}
        /\ ("MR-DD.1" \in Reported) <=> (meta.defender.name \notin GroundedOf(trans))
        /\ ("MR-DD.2" \in Reported) <=> (meta.attacker.name \in GroundedOf(trans))

\* both reported at once, without MR-DD.3
C11_Witness ==
    /\ DDCall
    /\ Reported = {"MR-DD.1", "MR-DD.2"}
    /\ meta.attacker.name \in GroundedOf(trans)

\* the direct attackers of the target in the structure of the AF: those of
\* the base AF, and the defender when the target is the attacker it defeats
TargetAttackers ==
    {d[1] : d \in {e \in Attacks(af) : e[2] = meta.target.name}}
    \cup (IF meta.target.name = meta.attacker.name THEN {meta.defender.name} ELSE {})

ShouldBeReinstated == \A x \in TargetAttackers : x \notin GroundedOf(trans)

\* C12: MR-DD.3 is evaluated only when the target is not in the original
\* grounded extension; then it is reported exactly when the target's
\* membership in the transformed grounded extension differs from "no direct
\* attacker of the target is in the transformed grounded extension"; when
\* the target is in the original grounded extension it is never reported.
C12_DD3Exact ==
    DDCall =>
        ("MR-DD.3" \in Reported) <=>
            /\ meta.target.name \notin GroundedOf(orig)
            /\ (meta.target.name \in GroundedOf(trans)) # ShouldBeReinstated

\* the target reinstated although one of its attackers is still in
C12_Witness ==
    /\ DDCall
    /\ "MR-DD.3" \in Reported
    /\ meta.target.name \notin GroundedOf(orig)
    /\ meta.target.name \in GroundedOf(trans)
    /\ \E x \in TargetAttackers : x \in GroundedOf(trans)

\* the law not evaluated: the target in the original grounded extension,
\* not in the transformed one, and none of its attackers in it
C12_WitnessPremise ==
    /\ DDCall
    /\ meta.target.name \in GroundedOf(orig)
    /\ meta.target.name \notin GroundedOf(trans) /\ ShouldBeReinstated
    /\ "MR-DD.3" \notin Reported

\* C13: the violation keys a verify_* function returns do not change when
\* the extensions listed under a tag are reordered or repeated, or the
\* names inside an extension are reordered or repeated.
C13_ListingIrrelevant ==
    [][call' = "again" =>
          /\ out'.exc = out.exc
          /\ DOMAIN out'.report = DOMAIN out.report]_vars

\* C14: with the true extensions of each AF as the answers, every check of
\* the logic validation run on a generated AF reports no violation and
\* raises nothing: the fundamental properties and validity on the base AF,
\* the fundamental properties on each transformed AF, and MR-ISO, MR-FC,
\* MR-MOD and, for every attack that may be selected, MR-DD.
C14_OracleNoViolation ==
    call # "none" => out.exc = "none" /\ DOMAIN out.report = {}

\* MR-DD.3 was evaluated on a generated AF with the true answers
C14_Witness ==
    /\ call = "verify_defense_dynamics"
    /\ orig = TrueFamily(af)
    /\ af \in GeneratedAFs
    /\ meta.target.name \notin GroundedOf(orig)
    /\ DOMAIN out.report = {}

\* C15: on any AF with an attack, and for any attack selected, the true
\* extensions of the base AF and of the transformed AF are reported no
\* MR-DD.1, MR-DD.2 or MR-DD.3 violation.
C15_TrueAnswersPass ==
    LET dd_af == MakeAF(af.arguments \o <<meta.defender.name>>,
                        af.defeats \o <<<<meta.defender.name, meta.attacker.name>>>>)
    IN (/\ call = "verify_defense_dynamics"
        /\ orig = TrueFamily(af)
        /\ trans = TrueFamily(dd_af))
           => out.exc = "none" /\ DOMAIN out.report = {}

\* C16: a generator raises ValueError, and produces no AF, exactly for an
\* invalid size: n <= 0 (no conflict); n < 2 (chain, cycle, single target);
\* n < 3 (single attack); n < 2 or n odd (pairs). Every other size is accepted.
C16_InvalidSizesRejected ==
    call \in GeneratorNames =>
        LET n == meta.arg
            invalid == CASE call = "NC" -> n <= 0
                         [] call \in {"LAC", "CYC", "STMA"} -> n < 2
                         [] call = "SAMD" -> n < 3
                         [] call = "DSP" -> n < 2 \/ n % 2 = 1
        IN /\ out.exc = (IF invalid THEN "ValueError" ELSE "none")
           /\ invalid <=> af = MakeAF(<<>>, <<>>)

\* the pairs generator rejected an odd size of at least 2
C16_Witness ==
    call = "DSP" /\ meta.arg = 3 /\ out.exc = "ValueError"

\* C17: for a valid n a generator returns n distinctly named arguments and
\* exactly the attacks of its class, each listed once and between arguments
\* of the AF: none; Ai->A(i+1), i=1..n-1; Ai->A((i mod n)+1), i=1..n, so that
\* every argument has one attacker and one target; Ai->T, i=1..n-1; Att->T
\* and Di->Att, i=1..n-2; Ai->Bi and Bi->Ai, i=1..n/2. Calling the generator
\* again with the same n gives the same names and attacks.
C17_GeneratedStructure ==
    (call \in GeneratorNames /\ out.exc = "none") =>
        LET n == meta.arg
            names == ArgNames(af)
            attacks == Attacks(af)
            class ==
                CASE call = "NC" -> {}
                  [] call = "LAC" -> {<<ArgA(i), ArgA(i + 1)>> : i \in 1..(n - 1)}
                  [] call = "CYC" -> {<<ArgA(i), ArgA((i % n) + 1)>> : i \in 1..n}
                  [] call = "STMA" -> {<<ArgA(i), ArgT>> : i \in 1..(n - 1)}
                  [] call = "SAMD" ->
                        {<<ArgAtt, ArgT>>} \cup {<<ArgD(i), ArgAtt>> : i \in 1..(n - 2)}
                  [] call = "DSP" ->
                        {<<ArgA(i), ArgB(i)>> : i \in 1..(n \div 2)}
                        \cup {<<ArgB(i), ArgA(i)>> : i \in 1..(n \div 2)}
            count == CASE call = "NC" -> 0
                       [] call \in {"LAC", "STMA", "SAMD"} -> n - 1
                       [] call \in {"CYC", "DSP"} -> n
        IN /\ Len(af.arguments) = n /\ Cardinality(names) = n
           /\ attacks = class
           /\ attacks \subseteq names \X names
           /\ Len(af.defeats) = count /\ Cardinality(attacks) = count
           /\ call = "CYC" =>
                 \A x \in names :
                    /\ Cardinality({d \in attacks : d[2] = x}) = 1
                    /\ Cardinality({d \in attacks : d[1] = x}) = 1
           /\ Generate(call, n).af = af

\* the single-attack generator returned an AF with a defender
C17_Witness ==
    call = "SAMD" /\ meta.arg = 3 /\ out.exc = "none" /\ ArgD(1) \in ArgNames(af)

\* C18: for an injective renaming r, apply_isomorphism returns an AF with as
\* many arguments and attacks as the base, whose names are exactly the r(a),
\* in which r(a) attacks r(b) iff a attacks b in the base, and returns r.
C18_IsomorphismExact ==
    (/\ call = "apply_isomorphism"
     /\ \A x, y \in DOMAIN meta.arg : meta.arg[x] = meta.arg[y] => x = y) =>
        LET r == meta.arg
            base == meta.base
        IN /\ Len(af.arguments) = Len(base.arguments)
           /\ Len(af.defeats) = Len(base.defeats)
           /\ ArgNames(af) = {r[x] : x \in ArgNames(base)}
           /\ \A x, y \in ArgNames(base) :
                 <<r[x], r[y]>> \in Attacks(af) <=> <<x, y>> \in Attacks(base)
           /\ meta.name = r

\* two names of an AF with an attack between different arguments were exchanged
C18_Witness ==
    /\ call = "apply_isomorphism"
    /\ Len(meta.base.arguments) >= 2
    /\ meta.arg[meta.base.arguments[1]] = meta.base.arguments[2]
    /\ meta.arg[meta.base.arguments[2]] = meta.base.arguments[1]
    /\ \E d \in Attacks(meta.base) : d[1] # d[2]

\* C19: apply_fundamental_consistency and apply_modularity return the added
\* name and an AF with all base arguments and all base attacks plus exactly
\* one new argument, in no attack with a base argument; fundamental
\* consistency adds exactly one attack, the new argument on itself,
\* modularity adds none.
C19_OneIsolatedArgument ==
    call \in {"apply_fundamental_consistency", "apply_modularity"} =>
        LET base == meta.base
            new == meta.arg
        IN /\ meta.name = new
           /\ af.arguments = base.arguments \o <<new>>
           /\ SubSeq(af.defeats, 1, Len(base.defeats)) = base.defeats
           /\ \A x \in ArgNames(base) :
                 <<x, new>> \notin Attacks(af) /\ <<new, x>> \notin Attacks(af)
           /\ call = "apply_fundamental_consistency" =>
                 af.defeats = base.defeats \o <<<<new, new>>>>
           /\ call = "apply_modularity" => af.defeats = base.defeats

\* C19, on the bases it holds for: when no argument of the base has the
\* added name, the result is the base plus that one argument, isolated from
\* the base, with the self-attack for fundamental consistency only.
C19_OneIsolatedArgumentWhenNew ==
    (/\ call \in {"apply_fundamental_consistency", "apply_modularity"}
     /\ meta.arg \notin ArgNames(meta.base)) => C19_OneIsolatedArgument

\* an argument was added to an AF that has attacks
C19_Witness ==
    /\ call = "apply_modularity"
    /\ meta.base.defeats # <<>>
    /\ NameU \notin ArgNames(meta.base)
    /\ NameU \in ArgNames(af)

\* C20: on an AF with an attack, whichever attack is selected,
\* apply_defense_dynamics returns the attacker and target of an attack of
\* the base and the base plus one new argument, the defender, and one new
\* attack, defender -> attacker; on an AF without attacks it raises
\* ValueError and returns nothing.
C20_DefenderAdded ==
    call = "apply_defense_dynamics" =>
        LET base == meta.base
        IN IF base.defeats = <<>>
           THEN out.exc = "ValueError" /\ af = base /\ meta.name = <<>>
           ELSE /\ out.exc = "none"
                /\ <<meta.attacker.name, meta.target.name>> \in Attacks(base)
                /\ meta.defender.name \notin ArgNames(base)
                /\ af.arguments = base.arguments \o <<meta.defender.name>>
                /\ af.defeats =
                      base.defeats \o <<<<meta.defender.name, meta.attacker.name>>>>
                /\ Len(af.arguments) = Len(base.arguments) + 1

\* a defender was added to an AF that already had an argument M_Defender
C20_Witness ==
    /\ call = "apply_defense_dynamics"
    /\ out.exc = "none"
    /\ NameDefender \in ArgNames(meta.base)
    /\ meta.defender.name \in ArgNames(af)

\* C21: the argument added by apply_fundamental_consistency and by
\* apply_modularity has a name no argument of the base has, also when the
\* base has an argument named 'SA' or 'U': the transformed AF has unique
\* names and one more argument than the base.
C21_AddedNameFresh ==
    call \in {"apply_fundamental_consistency", "apply_modularity"} =>
        /\ meta.name \notin ArgNames(meta.base)
        /\ Cardinality(ArgNames(af)) = Len(af.arguments)
        /\ Len(af.arguments) = Len(meta.base.arguments) + 1

\* C22: a transformation leaves its input as it was: the base AF keeps its
\* arguments and attacks, every argument of the base keeps its sets of
\* attackers and of targets, and these sets agree with the base's attacks.
C22_InputUnchanged ==
    [][call' \in {"apply_isomorphism", "apply_fundamental_consistency",
                  "apply_modularity", "apply_defense_dynamics"} =>
          /\ meta'.base = af
          /\ \A x \in Range(meta.objects.arguments) :
                LET before == ArgumentObject(x, meta.built)
                    after == ArgumentObject(x, meta'.base_built)
                IN /\ Range(after.ingoing) = Range(before.ingoing)
                   /\ Range(after.outgoing) = Range(before.outgoing)
                   /\ Range(after.ingoing) = {d[1] : d \in {e \in Attacks(af) : e[2] = x.name}}
                   /\ Range(after.outgoing) = {d[2] : d \in {e \in Attacks(af) : e[1] = x.name}}]_vars

\* C27: on an AF with an attack the defender is named 'M_Defender' when no
\* argument of the base has that name, and otherwise 'M_Defender_k' for the
\* smallest k >= 1 that names no argument of the base; the name differs from
\* every base argument's, and for a generator's AF it is 'M_Defender'.
C27_DefenderNameSmallestFree ==
    (call = "apply_defense_dynamics" /\ meta.base.defeats # <<>>) =>
        LET names == ArgNames(meta.base)
            Numbered(k) == NameDefender \o <<"_">> \o ToStr(k)
            free == {k \in 1..(Len(meta.base.arguments) + 1) : Numbered(k) \notin names}
            smallest == CHOOSE k \in free : \A j \in free : k <= j
        IN /\ out.exc = "none"
           /\ meta.defender.name =
                 (IF NameDefender \notin names THEN NameDefender ELSE Numbered(smallest))
           /\ meta.defender.name \notin names
           /\ meta.base \in GeneratedAFs => meta.defender.name = NameDefender

\* the naming loop ran more than once: the base already had the arguments
\* M_Defender and M_Defender_1, and the defender is M_Defender_2
C27_Witness ==
    /\ call = "apply_defense_dynamics"
    /\ {NameDefender, NameDefender \o <<"_">> \o ToStr(1)} \subseteq ArgNames(meta.base)
    /\ meta.defender.name = NameDefender \o <<"_">> \o ToStr(2)

\* C23: when the query for the base AF times out or raises any other
\* exception, all six columns of the pair are recorded, with status
\* 'Request Timeout' for a timeout and 'Error' otherwise, the five columns
\* other than base carry the aborted marker, the oracle is not queried again
\* for that pair, and the run goes on with the next pair.
C23_BaseFailureAbortsPair ==
    \A k \in DOMAIN meta.queries :
        LET q == meta.queries[k]
            timeout == q[3] = "TimeoutError"
            marker == IF timeout THEN <<"All other tests aborted due to timeout.">>
                      ELSE <<"All other tests aborted due to unexpected error">>
        IN q[2] = "BASE" /\ q[3] \in {"TimeoutError", "Exception", "extra"} =>
              /\ DOMAIN out[q[1]] = Range(Columns)
              /\ \A c \in Range(Columns) :
                    out[q[1]][c].status = IF timeout THEN "Request Timeout" ELSE "Error"
              /\ \A c \in Range(Columns) \ {"base"} :
                    out[q[1]][c].violations =
                        ((IF timeout THEN "TIMEOUT" ELSE "ERROR") :> <<marker>>)
              /\ \A j \in DOMAIN meta.queries \ {k} : meta.queries[j][1] # q[1]
              /\ meta.i > q[1]

\* a base query timed out on the first pair, another raised on the second,
\* and the run went on to its end
C23_Witness ==
    /\ call = "DONE"
    /\ Len(meta.queries) = 2
    /\ meta.queries[1] = <<1, "BASE", "TimeoutError">>
    /\ meta.queries[2] = <<2, "BASE", "Exception">>

\* what one step of a pair whose base state succeeded may change
LaterStateStep ==
    call \in {"VALIDITY", "ISOMORPHISM", "FUNDAMENTAL_CONSISTENCY", "MODULARITY",
                 "DEFENSE_DYNAMICS"} =>
         LET column == CHOOSE c \in Range(Columns) :
                           \/ c = "validity" /\ call = "VALIDITY"
                           \/ c = "isomorphism" /\ call = "ISOMORPHISM"
                           \/ c = "fundamental_consistency" /\ call = "FUNDAMENTAL_CONSISTENCY"
                           \/ c = "modularity" /\ call = "MODULARITY"
                           \/ c = "defense_dynamics" /\ call = "DEFENSE_DYNAMICS"
             behaviour == IF call = "VALIDITY" THEN "none"
                          ELSE meta'.queries[Len(meta'.queries)][3]
         IN /\ \A p \in DOMAIN out \ {meta.i} : out'[p] = out[p]
            /\ DOMAIN out'[meta.i] = DOMAIN out[meta.i] \cup {column}
            /\ \A c \in DOMAIN out[meta.i] \ {column} : out'[meta.i][c] = out[meta.i][c]
            /\ behaviour = "TimeoutError" => out'[meta.i][column].status = "Request Timeout"
            /\ behaviour = "Exception" => out'[meta.i][column].status = "Error"
            /\ af' = af /\ orig' = orig
            /\ call' = CASE call = "VALIDITY" -> "ISOMORPHISM"
                         [] call = "ISOMORPHISM" -> "FUNDAMENTAL_CONSISTENCY"
                         [] call = "FUNDAMENTAL_CONSISTENCY" -> "MODULARITY"
                         [] call = "MODULARITY" ->
                               IF af.defeats # <<>> THEN "DEFENSE_DYNAMICS" ELSE "BASE"
                         [] OTHER -> "BASE"
            /\ meta'.i = IF call' = "BASE" THEN meta.i + 1 ELSE meta.i

\* C24: once the base state has succeeded, a step (the validity state, a
\* metamorphic state) writes the entry of its own column only, an oracle
\* timeout there being recorded 'Request Timeout' and any other exception
\* 'Error'; the states after it are still run, against the same base AF and
\* base family, and no other entry of this or any other pair changes.
C24_LaterFailureIsLocal == [][LaterStateStep]_vars

\* the isomorphism query timed out, the modularity query raised, the states
\* in between and after were run and recorded, and the base entry is kept
C24_Witness ==
    /\ call = "BASE"
    /\ Len(meta.queries) = 5
    /\ meta.queries[1] = <<1, "BASE", "true">>
    /\ meta.queries[2] = <<1, "ISOMORPHISM", "TimeoutError">>
    /\ meta.queries[4] = <<1, "MODULARITY", "Exception">>
    /\ meta.queries[5][2] = "DEFENSE_DYNAMICS"
    /\ out[1]["base"].status = "PASS"
    /\ out[1]["isomorphism"].status = "Request Timeout"
    /\ out[1]["fundamental_consistency"].status = "PASS"
    /\ out[1]["modularity"].status = "Error"
    /\ out[1]["defense_dynamics"].status = "PASS"

\* C25: the defense-dynamics state queries the oracle only for a base AF
\* with at least one attack, and a finished pair whose base state succeeded
\* on a base AF without attacks holds a defense_dynamics entry (recorded as
\* not applicable) rather than none.
C25_DefenseDynamicsOnlyWithAttacks ==
    /\ \A k \in DOMAIN meta.queries :
          meta.queries[k][2] = "DEFENSE_DYNAMICS" =>
              Generate(meta.pairs[meta.queries[k][1]][1],
                       meta.pairs[meta.queries[k][1]][2]).af.defeats # <<>>
    /\ \A p \in DOMAIN meta.pairs :
          /\ p < meta.i
          /\ out[p]["base"].status \in {"PASS", "FAIL"}
          /\ Generate(meta.pairs[p][1], meta.pairs[p][2]).af.defeats = <<>>
          => "defense_dynamics" \in DOMAIN out[p]

\* C26: for each of the three clients, a query makes at most MAX_RETRIES
\* requests, sleeps the configured delay exactly between two consecutive
\* requests, returns as soon as a request is answered, and, when every
\* request timed out, ends with TimeoutError, which is recorded as
\* 'Request Timeout'.
C26_RetryThenTimeout ==
    LET log == meta.log
        TimedOut(e) == /\ e[1] = "attempt"
                       /\ e[2] \in {"APITimeoutError", "ServerError", "ReadTimeout",
                                     "requests.Timeout"}
        over == call \in {"returned", "raised", "recorded"}
    IN /\ meta.attempt <= meta.MAX_RETRIES
       /\ \A k \in DOMAIN log :
             /\ log[k][1] = "sleep" =>
                    /\ log[k][2] = meta.RETRY_DELAY_SECONDS
                    /\ k > 1 /\ TimedOut(log[k - 1])
                    /\ k < Len(log) => log[k + 1][1] = "attempt"
             /\ log[k][1] = "attempt" /\ k < Len(log) =>
                    TimedOut(log[k]) /\ log[k + 1][1] = "sleep"
       /\ over => log[Len(log)][1] = "attempt"
       /\ over /\ (\A k \in DOMAIN log : log[k][1] = "attempt" => TimedOut(log[k])) =>
             /\ out.exc = "TimeoutError"
             /\ call = "recorded" => out.status = "Request Timeout"
       /\ over /\ log[Len(log)][2] = "response" => out.exc = "none"

\* C28: the queries of one pair are made in the order base, isomorphism,
\* fundamental consistency, modularity, defense dynamics, one per state and
\* none skipped; the later ones only after the base query gave a family;
\* validity is recorded between the base and the isomorphism query without a
\* query of its own; and a pair is queried only when every pair before it
\* has its last state recorded.
C28_QueriesInOrder ==
    LET order == <<"BASE", "ISOMORPHISM", "FUNDAMENTAL_CONSISTENCY", "MODULARITY",
                   "DEFENSE_DYNAMICS">>
        log == meta.queries
        OfPair(p) == SelectSeq(log, LAMBDA q : q[1] = p)
        HasAttacks(p) == Generate(meta.pairs[p][1], meta.pairs[p][2]).af.defeats # <<>>
        Finished(p) ==
            \/ DOMAIN out[p] = Range(Columns)
            \/ ~HasAttacks(p) /\ DOMAIN out[p] = Range(Columns) \ {"defense_dynamics"}
    IN /\ \A p \in DOMAIN meta.pairs :
             /\ Len(OfPair(p)) <= Len(order)
             /\ \A k \in DOMAIN OfPair(p) : OfPair(p)[k][2] = order[k]
             /\ Len(OfPair(p)) > 1 =>
                    /\ OfPair(p)[1][3] \notin {"TimeoutError", "Exception"}
                    /\ out[p]["base"].status \in {"PASS", "FAIL"}
                    /\ "validity" \in DOMAIN out[p]
             /\ "validity" \in DOMAIN out[p] => Len(OfPair(p)) >= 1
       /\ call = "ISOMORPHISM" =>
             /\ log[Len(log)] \in {<<meta.i, "BASE", b>> : b \in OracleBehaviours}
             /\ "validity" \in DOMAIN out[meta.i]
       /\ \A j, k \in DOMAIN log : j < k => log[j][1] <= log[k][1]
       /\ \A k \in DOMAIN log : \A p \in 1..(log[k][1] - 1) : Finished(p)

\* both pairs of a run were taken through all their states, the second
\* after the first
C28_Witness ==
    /\ call = "DONE"
    /\ Len(meta.queries) = 9
    /\ meta.queries[4] = <<1, "MODULARITY", "true">>
    /\ meta.queries[5] = <<2, "BASE", "true">>
    /\ meta.queries[9] = <<2, "DEFENSE_DYNAMICS", "true">>

\* C29: whatever the oracle does on each query, the run reaches the end of
\* the loop over all pairs, and every pair then holds an entry with a status
\* for base, validity, isomorphism, fundamental_consistency and modularity.
C29_RunFinishes ==
    <>(/\ call = "DONE"
       /\ \A p \in DOMAIN meta.pairs :
             \A c \in {"base", "validity", "isomorphism", "fundamental_consistency",
                        "modularity"} :
                /\ c \in DOMAIN out[p]
                /\ out[p][c].status \in {"PASS", "FAIL", "Error", "Request Timeout"})

\* a run that met an unparseable answer and a timeout has finished
C29_Witness ==
    /\ call = "DONE"
    /\ \E j, k \in DOMAIN meta.queries :
          /\ meta.queries[j][3] = "unparseable"
          /\ meta.queries[k][3] = "TimeoutError"

\* C30: when the base family fails the schema check (the empty mapping of an
\* unparseable response, an element that is not an argument name), the base
\* state is recorded FAIL and the pair is not aborted: every later state
\* queries the oracle, and whenever the oracle answers, the state is
\* recorded FAIL with SCHEMA-ERROR or SCHEMA-VERIFICATION-FAILED among its
\* violations, whatever the answer is.
C30_RejectedBaseFailsLaterStates ==
    \A k \in DOMAIN meta.queries :
        LET p == meta.queries[k][1]
            later == {j \in DOMAIN meta.queries : j > k /\ meta.queries[j][1] = p}
            Column(state) == CASE state = "ISOMORPHISM" -> "isomorphism"
                               [] state = "FUNDAMENTAL_CONSISTENCY" -> "fundamental_consistency"
                               [] state = "MODULARITY" -> "modularity"
                               [] OTHER -> "defense_dynamics"
        IN meta.queries[k][2] = "BASE" /\ meta.queries[k][3] \in {"unparseable", "text"} =>
              /\ out[p]["base"].status = "FAIL"
              /\ DOMAIN out[p]["base"].violations
                    \cap {"SCHEMA-ERROR", "SCHEMA-VERIFICATION-FAILED"} # {}
              /\ p < meta.i => Cardinality(later) >= 3
              /\ \A j \in later :
                    meta.queries[j][3] \notin {"TimeoutError", "Exception"} =>
                        /\ out[p][Column(meta.queries[j][2])].status = "FAIL"
                        /\ DOMAIN out[p][Column(meta.queries[j][2])].violations
                              \cap {"SCHEMA-ERROR", "SCHEMA-VERIFICATION-FAILED"} # {}

====
